---- MODULE Spec2Model ----
(***************************************************************************)
(* A model of the GFS-style storage system of 03-gfs/main.go: the Master   *)
(* (coordinator) with its four HTTP handlers, the Chunkserver with its     *)
(* write and read handlers and its start-up registration, and the Client's *)
(* createFile, writeFile and readFile.                                     *)
(*                                                                         *)
(* Every HTTP handler holds its server's lock from its first access to the *)
(* shared maps until it returns, so a handler that runs alone is one       *)
(* atomic action.  The client functions and Chunkserver.start are          *)
(* sequences of blocking calls: each call is a step of its own, and the    *)
(* steps of other processes come in between.                               *)
(* File names and server addresses are drawn from strings that the URL     *)
(* query encoding carries unchanged (letters and digits, as in demo.sh).   *)
(***************************************************************************)
EXTENDS Integers, Sequences, FiniteSets, TLC

VARIABLES
    master,     \* the Master struct: files, chunks, servers, nextChunk
    now,        \* the wall clock read by time.Now(), in seconds
    cs,         \* per address: is the Chunkserver process serving, and its chunks map
    disk,       \* per address: the files of the chunkserver's dataDir (handle -> bytes)
    allocLog,   \* history: per file, the handles returned by successful allocations, in call order
    passed,     \* history: the file names ever passed to CreateFile or WriteFile
    faults,     \* environment: the number of crashes and failed disk writes so far
    mu,         \* Master.mu, the sync.RWMutex: is it write-locked, and the number of read locks
    req,        \* per handler goroutine of the coordinator: its position, request and local variables
    wr,         \* the client inside writeFile: its position and local variables
    rd,         \* the client inside readFile: its position and local variables
    hung,       \* environment: the addresses that accept a request and never answer it
    wrote,      \* history: per handle allocated by a WriteFile, the data of that WriteFile
    stored,     \* history: per address and handle, the data of the last StoreChunk, if its disk write succeeded
    boot,       \* per address: the position of Chunkserver.start and its loop counter i
    csmu,       \* Chunkserver.mu of one chunkserver: is it write-locked, and the number of read locks
    creq        \* per handler goroutine of that chunkserver: its position, request and local variables

vars == <<master, now, cs, disk, allocLog, passed, faults, mu, req, wr, rd, hung, wrote,
          stored, boot, csmu, creq>>

\* the requests in flight
inflight == <<mu, req, wr, rd, hung>>

----------------------------------------------------------------------------
(* Program constants *)

ReplicationFactor == 3

LeaseSeconds == 60

RegisterAttempts == 5

StatusOK == 200
StatusBadRequest == 400
StatusNotFound == 404
StatusMethodNotAllowed == 405
StatusConflict == 409
StatusServiceUnavailable == 503

(* Bounds of the model *)

\* allocations stop once nextChunk exceeds MaxChunks
MaxChunks == 2

\* chunkserver crashes and failed disk writes happen at most MaxFaults times in all
MaxFaults == 1

\* the clock stops after MaxTicks lease durations
MaxTicks == 2

(* Input sets *)

\* file names that the ?file= query parameter carries unchanged
Paths == {"f1", "f2"}

\* "" is the missing ?file= parameter
PathInputs == Paths \cup {""}

\* the addresses at which a chunkserver process can run
Addrs == {"s1", "s2", "s3"}

\* what /register may be called with: any address, "" is the missing parameter
AddrInputs == Addrs \cup {"s4", ""}

Methods == {"POST", "GET"}

Data == {"a", "b"}

----------------------------------------------------------------------------
(* Go maps as functions *)

EmptyMap == [k \in {} |-> k]

MapPut(m, k, v) == [x \in (DOMAIN m) \cup {k} |-> IF x = k THEN v ELSE m[x]]

\* no StoreChunk call was made
NoStores == EmptyMap

\* a nil *Chunk, encoded as JSON null
Null == [Handle |-> "", Servers |-> <<>>, Version |-> 0, Size |-> 0,
         Primary |-> "", LeaseEnd |-> 0]

\* the error of a call that returned nil
Nil == ""

----------------------------------------------------------------------------
(* Master *)

NewMaster == [files |-> EmptyMap, chunks |-> EmptyMap, servers |-> <<>>, nextChunk |-> 1]

\* http.Error / WriteHeader: the master after the handler, the status and the body
Reply(M, status, body) == [master |-> M, status |-> status, body |-> body]

\* mutant: the scan for an already registered address is missing
handleRegisterServer_NoDedup(M, method, server) ==
    IF method # "POST" THEN Reply(M, StatusMethodNotAllowed, "Method not allowed\n")
    ELSE IF server = "" THEN Reply(M, StatusBadRequest, "Server address required\n")
    ELSE Reply([M EXCEPT !.servers = Append(@, server)], StatusOK, "")

\* mutant: a newly registered server is added to the chunks that have
\* fewer than ReplicationFactor replicas
handleRegisterServer_Rereplicate(M, method, server) ==
    IF method # "POST" THEN Reply(M, StatusMethodNotAllowed, "Method not allowed\n")
    ELSE IF server = "" THEN Reply(M, StatusBadRequest, "Server address required\n")
    ELSE IF \E i \in 1..Len(M.servers) : M.servers[i] = server
         THEN Reply(M, StatusOK, "")
    ELSE Reply([M EXCEPT !.servers = Append(@, server),
                         !.chunks = [h \in DOMAIN @ |->
                             IF Len(@[h].Servers) < ReplicationFactor
                             THEN [@[h] EXCEPT !.Servers = Append(@, server)]
                             ELSE @[h]]],
               StatusOK, "")

handleRegisterServer(M, method, server) ==
    IF method # "POST" THEN Reply(M, StatusMethodNotAllowed, "Method not allowed\n")
    ELSE IF server = "" THEN Reply(M, StatusBadRequest, "Server address required\n")
    ELSE IF \E i \in 1..Len(M.servers) : M.servers[i] = server
         THEN Reply(M, StatusOK, "")
    ELSE Reply([M EXCEPT !.servers = Append(@, server)], StatusOK, "")

\* mutant: the existence check is missing, the FileInfo is overwritten
handleCreateFile_Overwrite(M, method, filename) ==
    IF method # "POST" THEN Reply(M, StatusMethodNotAllowed, "Method not allowed\n")
    ELSE IF filename = "" THEN Reply(M, StatusBadRequest, "Filename required\n")
    ELSE Reply([M EXCEPT !.files = MapPut(@, filename,
                    [Name |-> filename, Chunks |-> <<>>, Size |-> 0])],
               StatusOK, "")

handleCreateFile(M, method, filename) ==
    IF method # "POST" THEN Reply(M, StatusMethodNotAllowed, "Method not allowed\n")
    ELSE IF filename = "" THEN Reply(M, StatusBadRequest, "Filename required\n")
    ELSE IF filename \in DOMAIN M.files
         THEN Reply(M, StatusConflict, "File already exists\n")
    ELSE Reply([M EXCEPT !.files = MapPut(@, filename,
                    [Name |-> filename, Chunks |-> <<>>, Size |-> 0])],
               StatusOK, "")

\* mutant: an unknown file is answered like a file without chunks
handleGetChunks_NoExistsCheck(M, filename) ==
    IF filename = "" THEN Reply(M, StatusBadRequest, "Filename required\n")
    ELSE IF filename \notin DOMAIN M.files THEN Reply(M, StatusOK, <<>>)
    ELSE LET file == M.files[filename]
         IN  Reply(M, StatusOK,
                   [i \in 1..Len(file.Chunks) |->
                       IF file.Chunks[i] \in DOMAIN M.chunks
                       THEN M.chunks[file.Chunks[i]] ELSE Null])

handleGetChunks(M, filename) ==
    IF filename = "" THEN Reply(M, StatusBadRequest, "Filename required\n")
    ELSE IF filename \notin DOMAIN M.files
         THEN Reply(M, StatusNotFound, "File not found\n")
    ELSE LET file == M.files[filename]
         IN  Reply(M, StatusOK,
                   [i \in 1..Len(file.Chunks) |->
                       IF file.Chunks[i] \in DOMAIN M.chunks
                       THEN M.chunks[file.Chunks[i]] ELSE Null])

\* mutant: the list is never cut to count
selectServers_All(srvs, count) == srvs

\* mutant: the servers registered last are selected
selectServers_Last(srvs, count) ==
    IF Len(srvs) < count THEN srvs
    ELSE [i \in 1..count |-> srvs[Len(srvs) - count + i]]

\* mutant: without a registered server a default address is selected
selectServers_Default(srvs, count) ==
    IF Len(srvs) = 0 THEN <<"s1">>
    ELSE IF Len(srvs) < count THEN srvs
    ELSE [i \in 1..count |-> srvs[i]]

selectServers(srvs, count) ==
    IF Len(srvs) < count THEN srvs
    ELSE [i \in 1..count |-> srvs[i]]

\* mutant: every chunk gets the same handle
ChunkHandle_Same(n) == "chunk_1"

\* fmt.Sprintf("chunk_%d", n)
ChunkHandle(n) == "chunk_" \o ToString(n)

\* mutant: the new handle is put in front of the file's chunk list
handleAllocateChunk_Prepend(M, method, filename, t) ==
    IF method # "POST" THEN Reply(M, StatusMethodNotAllowed, "Method not allowed\n")
    ELSE IF filename = "" THEN Reply(M, StatusBadRequest, "Filename required\n")
    ELSE IF filename \notin DOMAIN M.files
         THEN Reply(M, StatusNotFound, "File not found\n")
    ELSE LET chunkHandle == ChunkHandle(M.nextChunk)
             M1 == [M EXCEPT !.nextChunk = @ + 1]
             selected == selectServers(M1.servers, ReplicationFactor)
         IN  IF Len(selected) = 0
             THEN Reply(M1, StatusServiceUnavailable, "No available servers\n")
             ELSE LET chunk == [Handle |-> chunkHandle, Servers |-> selected,
                                Version |-> 1, Size |-> 0, Primary |-> selected[1],
                                LeaseEnd |-> t + LeaseSeconds]
                  IN  Reply([M1 EXCEPT !.chunks = MapPut(@, chunkHandle, chunk),
                                       !.files[filename].Chunks = <<chunkHandle>> \o @],
                            StatusOK, chunk)

\* mutant: the handle counter is advanced before the file is looked up
handleAllocateChunk_CountFirst(M, method, filename, t) ==
    IF method # "POST" THEN Reply(M, StatusMethodNotAllowed, "Method not allowed\n")
    ELSE IF filename = "" THEN Reply(M, StatusBadRequest, "Filename required\n")
    ELSE LET chunkHandle == ChunkHandle(M.nextChunk)
             M1 == [M EXCEPT !.nextChunk = @ + 1]
             selected == selectServers(M1.servers, ReplicationFactor)
         IN  IF filename \notin DOMAIN M.files
             THEN Reply(M1, StatusNotFound, "File not found\n")
             ELSE IF Len(selected) = 0
             THEN Reply(M1, StatusServiceUnavailable, "No available servers\n")
             ELSE LET chunk == [Handle |-> chunkHandle, Servers |-> selected,
                                Version |-> 1, Size |-> 0, Primary |-> selected[1],
                                LeaseEnd |-> t + LeaseSeconds]
                  IN  Reply([M1 EXCEPT !.chunks = MapPut(@, chunkHandle, chunk),
                                       !.files[filename].Chunks = Append(@, chunkHandle)],
                            StatusOK, chunk)

\* mutant: the handle is appended to the file before the servers are selected
handleAllocateChunk_AppendFirst(M, method, filename, t) ==
    IF method # "POST" THEN Reply(M, StatusMethodNotAllowed, "Method not allowed\n")
    ELSE IF filename = "" THEN Reply(M, StatusBadRequest, "Filename required\n")
    ELSE IF filename \notin DOMAIN M.files
         THEN Reply(M, StatusNotFound, "File not found\n")
    ELSE LET chunkHandle == ChunkHandle(M.nextChunk)
             M1 == [M EXCEPT !.nextChunk = @ + 1,
                             !.files[filename].Chunks = Append(@, chunkHandle)]
             selected == selectServers(M1.servers, ReplicationFactor)
         IN  IF Len(selected) = 0
             THEN Reply(M1, StatusServiceUnavailable, "No available servers\n")
             ELSE LET chunk == [Handle |-> chunkHandle, Servers |-> selected,
                                Version |-> 1, Size |-> 0, Primary |-> selected[1],
                                LeaseEnd |-> t + LeaseSeconds]
                  IN  Reply([M1 EXCEPT !.chunks = MapPut(@, chunkHandle, chunk)],
                            StatusOK, chunk)

\* mutant: the last selected server is made the primary
handleAllocateChunk_PrimaryLast(M, method, filename, t) ==
    IF method # "POST" THEN Reply(M, StatusMethodNotAllowed, "Method not allowed\n")
    ELSE IF filename = "" THEN Reply(M, StatusBadRequest, "Filename required\n")
    ELSE IF filename \notin DOMAIN M.files
         THEN Reply(M, StatusNotFound, "File not found\n")
    ELSE LET chunkHandle == ChunkHandle(M.nextChunk)
             M1 == [M EXCEPT !.nextChunk = @ + 1]
             selected == selectServers(M1.servers, ReplicationFactor)
         IN  IF Len(selected) = 0
             THEN Reply(M1, StatusServiceUnavailable, "No available servers\n")
             ELSE LET chunk == [Handle |-> chunkHandle, Servers |-> selected,
                                Version |-> 1, Size |-> 0, Primary |-> selected[Len(selected)],
                                LeaseEnd |-> t + LeaseSeconds]
                  IN  Reply([M1 EXCEPT !.chunks = MapPut(@, chunkHandle, chunk),
                                       !.files[filename].Chunks = Append(@, chunkHandle)],
                            StatusOK, chunk)

\* mutant: an allocation renews the leases of the chunks the file has
handleAllocateChunk_Renew(M, method, filename, t) ==
    IF method # "POST" THEN Reply(M, StatusMethodNotAllowed, "Method not allowed\n")
    ELSE IF filename = "" THEN Reply(M, StatusBadRequest, "Filename required\n")
    ELSE IF filename \notin DOMAIN M.files
         THEN Reply(M, StatusNotFound, "File not found\n")
    ELSE LET chunkHandle == ChunkHandle(M.nextChunk)
             M1 == [M EXCEPT !.nextChunk = @ + 1]
             selected == selectServers(M1.servers, ReplicationFactor)
         IN  IF Len(selected) = 0
             THEN Reply(M1, StatusServiceUnavailable, "No available servers\n")
             ELSE LET chunk == [Handle |-> chunkHandle, Servers |-> selected,
                                Version |-> 1, Size |-> 0, Primary |-> selected[1],
                                LeaseEnd |-> t + LeaseSeconds]
                      renewed == [h \in DOMAIN M1.chunks |->
                                     IF \E k \in 1..Len(M1.files[filename].Chunks) :
                                            M1.files[filename].Chunks[k] = h
                                     THEN [M1.chunks[h] EXCEPT !.Version = @ + 1,
                                                               !.LeaseEnd = t + LeaseSeconds]
                                     ELSE M1.chunks[h]]
                  IN  Reply([M1 EXCEPT !.chunks = MapPut(renewed, chunkHandle, chunk),
                                       !.files[filename].Chunks = Append(@, chunkHandle)],
                            StatusOK, chunk)

\* mutant: the handle counter advances only when servers were selected
handleAllocateChunk_IncrLast(M, method, filename, t) ==
    IF method # "POST" THEN Reply(M, StatusMethodNotAllowed, "Method not allowed\n")
    ELSE IF filename = "" THEN Reply(M, StatusBadRequest, "Filename required\n")
    ELSE IF filename \notin DOMAIN M.files
         THEN Reply(M, StatusNotFound, "File not found\n")
    ELSE LET chunkHandle == ChunkHandle(M.nextChunk)
             M1 == [M EXCEPT !.nextChunk = @ + 1]
             selected == selectServers(M1.servers, ReplicationFactor)
         IN  IF Len(selected) = 0
             THEN Reply(M, StatusServiceUnavailable, "No available servers\n")
             ELSE LET chunk == [Handle |-> chunkHandle, Servers |-> selected,
                                Version |-> 1, Size |-> 0, Primary |-> selected[1],
                                LeaseEnd |-> t + LeaseSeconds]
                  IN  Reply([M1 EXCEPT !.chunks = MapPut(@, chunkHandle, chunk),
                                       !.files[filename].Chunks = Append(@, chunkHandle)],
                            StatusOK, chunk)

\* mutant: the handle counter is never advanced
handleAllocateChunk_ReuseHandle(M, method, filename, t) ==
    IF method # "POST" THEN Reply(M, StatusMethodNotAllowed, "Method not allowed\n")
    ELSE IF filename = "" THEN Reply(M, StatusBadRequest, "Filename required\n")
    ELSE IF filename \notin DOMAIN M.files
         THEN Reply(M, StatusNotFound, "File not found\n")
    ELSE LET chunkHandle == ChunkHandle(M.nextChunk)
             M1 == M
             selected == selectServers(M1.servers, ReplicationFactor)
         IN  IF Len(selected) = 0
             THEN Reply(M1, StatusServiceUnavailable, "No available servers\n")
             ELSE LET chunk == [Handle |-> chunkHandle, Servers |-> selected,
                                Version |-> 1, Size |-> 0, Primary |-> selected[1],
                                LeaseEnd |-> t + LeaseSeconds]
                  IN  Reply([M1 EXCEPT !.chunks = MapPut(@, chunkHandle, chunk),
                                       !.files[filename].Chunks = Append(@, chunkHandle)],
                            StatusOK, chunk)

handleAllocateChunk(M, method, filename, t) ==
    IF method # "POST" THEN Reply(M, StatusMethodNotAllowed, "Method not allowed\n")
    ELSE IF filename = "" THEN Reply(M, StatusBadRequest, "Filename required\n")
    ELSE IF filename \notin DOMAIN M.files
         THEN Reply(M, StatusNotFound, "File not found\n")
    ELSE LET chunkHandle == ChunkHandle(M.nextChunk)
             M1 == [M EXCEPT !.nextChunk = @ + 1]
             selected == selectServers(M1.servers, ReplicationFactor)
         IN  IF Len(selected) = 0
             THEN Reply(M1, StatusServiceUnavailable, "No available servers\n")
             ELSE LET chunk == [Handle |-> chunkHandle, Servers |-> selected,
                                Version |-> 1, Size |-> 0, Primary |-> selected[1],
                                LeaseEnd |-> t + LeaseSeconds]
                  IN  Reply([M1 EXCEPT !.chunks = MapPut(@, chunkHandle, chunk),
                                       !.files[filename].Chunks = Append(@, chunkHandle)],
                            StatusOK, chunk)

----------------------------------------------------------------------------
(* History *)

NoLog == [f \in Paths |-> <<>>]

LogAlloc(log, filename, r) ==
    IF r.status = StatusOK /\ filename \in Paths
    THEN [log EXCEPT ![filename] = Append(@, r.body.Handle)]
    ELSE log

\* the data a WriteFile sends under the handle it was allocated
LogWrite(log, r, data) ==
    IF r.status = StatusOK THEN MapPut(log, r.body.Handle, data) ELSE log

NoneStored == [s \in Addrs |-> EmptyMap]

\* a StoreChunk that reached os.WriteFile: the handle's entry is the data when
\* the disk write succeeded, and is dropped when it failed
LogStore(log, address, chunkHandle, data, outcome) ==
    IF outcome = "ok"
    THEN [log EXCEPT ![address] = MapPut(@, chunkHandle, data)]
    ELSE [log EXCEPT ![address] = [h \in DOMAIN @ \ {chunkHandle} |-> @[h]]]

\* the StoreChunk calls of one writeFile
RECURSIVE LogStores(_, _, _, _, _)
LogStores(log, stores, chunk, i, data) ==
    IF i > Len(chunk.Servers) THEN log
    ELSE LET server == chunk.Servers[i]
         IN  LogStores(IF stores[server] = "unreachable" THEN log
                       ELSE LogStore(log, server, chunk.Handle, data, stores[server]),
                       stores, chunk, i + 1, data)

----------------------------------------------------------------------------
(* The coordinator's operations, called directly over HTTP *)

RegisterServer(method, server) ==
    LET r == handleRegisterServer(master, method, server)
    IN  /\ master' = r.master
        /\ UNCHANGED <<csmu, creq, boot, stored, wrote, inflight, now, cs, disk, allocLog, passed, faults>>

CreateFile(method, filename) ==
    LET r == handleCreateFile(master, method, filename)
    IN  /\ master' = r.master
        /\ passed' = passed \cup {filename}
        /\ UNCHANGED <<csmu, creq, boot, stored, wrote, inflight, now, cs, disk, allocLog, faults>>

GetChunkLocations(filename) ==
    LET r == handleGetChunks(master, filename)
    IN  /\ master' = r.master
        /\ UNCHANGED <<csmu, creq, boot, stored, wrote, inflight, now, cs, disk, allocLog, passed, faults>>

\* time passes: time.Now() of a later allocation is one lease duration on
Tick ==
    /\ now < MaxTicks * LeaseSeconds
    /\ now' = now + LeaseSeconds
    /\ UNCHANGED <<csmu, creq, boot, stored, wrote, inflight, master, cs, disk, allocLog, passed, faults>>

AllocateChunk(method, filename) ==
    /\ master.nextChunk <= MaxChunks
    /\ LET r == handleAllocateChunk(master, method, filename, now)
       IN  /\ master' = r.master
           /\ allocLog' = LogAlloc(allocLog, filename, r)
           /\ UNCHANGED <<csmu, creq, boot, stored, wrote, inflight, now, cs, disk, passed, faults>>

----------------------------------------------------------------------------
(* Chunkserver *)

\* NewChunkserver: an empty chunks map; the dataDir keeps what it held
NewChunkserver == [up |-> FALSE, chunks |-> EmptyMap]

\* the outcomes of os.WriteFile: written; the open failed and the file is
\* untouched; the file was created or truncated and the write then failed
DiskOutcomes == {"ok", "open_failed", "write_failed"}

osWriteFile(D, name, data, outcome) ==
    IF outcome = "ok" THEN MapPut(D, name, data)
    ELSE IF outcome = "write_failed" THEN MapPut(D, name, "")
    ELSE D

\* the chunks map and the dataDir after the handler, the status and the body
CsReply(C, D, status, body) == [chunks |-> C, disk |-> D, status |-> status, body |-> body]

\* mutant: the request body was already drained, nothing is left to store
handleWrite_EmptyBody(C, D, method, chunkHandle, data, outcome) ==
    IF method # "POST" THEN CsReply(C, D, StatusMethodNotAllowed, "Method not allowed\n")
    ELSE IF chunkHandle = "" THEN CsReply(C, D, StatusBadRequest, "Chunk handle required\n")
    ELSE CsReply(MapPut(C, chunkHandle, ""),
                 osWriteFile(D, chunkHandle, "", outcome),
                 StatusOK, "")

\* mutant: a handle that is already held is not stored again
handleWrite_KeepExisting(C, D, method, chunkHandle, data, outcome) ==
    IF method # "POST" THEN CsReply(C, D, StatusMethodNotAllowed, "Method not allowed\n")
    ELSE IF chunkHandle = "" THEN CsReply(C, D, StatusBadRequest, "Chunk handle required\n")
    ELSE IF chunkHandle \in DOMAIN C THEN CsReply(C, D, StatusOK, "")
    ELSE CsReply(MapPut(C, chunkHandle, data),
                 osWriteFile(D, chunkHandle, data, outcome),
                 StatusOK, "")

\* mutant: the chunk is written to disk first and a failure is answered with 500
handleWrite_FailOnDiskError(C, D, method, chunkHandle, data, outcome) ==
    IF method # "POST" THEN CsReply(C, D, StatusMethodNotAllowed, "Method not allowed\n")
    ELSE IF chunkHandle = "" THEN CsReply(C, D, StatusBadRequest, "Chunk handle required\n")
    ELSE IF outcome # "ok"
         THEN CsReply(C, osWriteFile(D, chunkHandle, data, outcome), 500,
                      "Failed to write chunk\n")
    ELSE CsReply(MapPut(C, chunkHandle, data),
                 osWriteFile(D, chunkHandle, data, outcome),
                 StatusOK, "")

handleWrite(C, D, method, chunkHandle, data, outcome) ==
    IF method # "POST" THEN CsReply(C, D, StatusMethodNotAllowed, "Method not allowed\n")
    ELSE IF chunkHandle = "" THEN CsReply(C, D, StatusBadRequest, "Chunk handle required\n")
    ELSE CsReply(MapPut(C, chunkHandle, data),
                 osWriteFile(D, chunkHandle, data, outcome),
                 StatusOK, "")

\* mutant: only the chunks map is consulted
handleRead_MemoryOnly(C, D, chunkHandle) ==
    IF chunkHandle = "" THEN CsReply(C, D, StatusBadRequest, "Chunk handle required\n")
    ELSE IF chunkHandle \in DOMAIN C THEN CsReply(C, D, StatusOK, C[chunkHandle])
    ELSE CsReply(C, D, StatusNotFound, "Chunk not found\n")

\* mutant: the bytes read from disk are returned without caching them
handleRead_NoBackfill(C, D, chunkHandle) ==
    IF chunkHandle = "" THEN CsReply(C, D, StatusBadRequest, "Chunk handle required\n")
    ELSE IF chunkHandle \in DOMAIN C THEN CsReply(C, D, StatusOK, C[chunkHandle])
    ELSE IF chunkHandle \notin DOMAIN D
         THEN CsReply(C, D, StatusNotFound, "Chunk not found\n")
    ELSE CsReply(C, D, StatusOK, D[chunkHandle])

handleRead(C, D, chunkHandle) ==
    IF chunkHandle = "" THEN CsReply(C, D, StatusBadRequest, "Chunk handle required\n")
    ELSE IF chunkHandle \in DOMAIN C THEN CsReply(C, D, StatusOK, C[chunkHandle])
    ELSE IF chunkHandle \notin DOMAIN D
         THEN CsReply(C, D, StatusNotFound, "Chunk not found\n")
    ELSE CsReply(MapPut(C, chunkHandle, D[chunkHandle]), D, StatusOK, D[chunkHandle])

\* a request to addr is answered when a chunkserver process serves at addr
Reachable(CS, addr) == addr \in DOMAIN CS /\ CS[addr].up

\* registerWithMaster: reached says whether the POST got an answer
registerWithMaster(M, address, reached) ==
    IF ~reached THEN [master |-> M, err |-> "transport"]
    ELSE LET r == handleRegisterServer(M, "POST", address)
         IN  [master |-> r.master,
              err |-> IF r.status # StatusOK THEN "registration failed" ELSE Nil]

(* Chunkserver.start statement by statement *)

NotStarted == [pc |-> "off", i |-> 0]

\* what one http.Post to /register meets: an answer, a refused connection, or
\* a coordinator that accepts the request and never answers it
RegisterOutcomes == {"answered", "refused", "hung"}

\* mutant: the listener is started before the registration loop
StartProcess_ListenFirst(address) ==
    /\ ~cs[address].up
    /\ boot[address].pc = "off"
    /\ boot' = [boot EXCEPT ![address] = [pc |-> "register", i |-> 0]]
    /\ cs' = [cs EXCEPT ![address] = [up |-> TRUE, chunks |-> EmptyMap]]
    /\ UNCHANGED <<csmu, creq, stored, wrote, inflight, master, now, disk, allocLog, passed, faults>>

\* main in chunkserver mode: NewChunkserver and the entry of cs.start()
StartProcess(address) ==
    /\ ~cs[address].up
    /\ boot[address].pc = "off"
    /\ boot' = [boot EXCEPT ![address] = [pc |-> "register", i |-> 0]]
    /\ UNCHANGED <<csmu, creq, stored, wrote, inflight, master, now, cs, disk, allocLog, passed, faults>>

\* one turn of the loop, entered with i < 5: registerWithMaster; an error is
\* logged, the goroutine sleeps and continues with i + 1; success breaks out
\* of the loop.  http.Post has no timeout: a request that is never answered
\* never returns
RegisterAttempt(address, outcome) ==
    /\ boot[address].pc = "register"
    /\ boot[address].i < RegisterAttempts
    /\ LET r == registerWithMaster(master, address, outcome = "answered")
       IN  /\ master' = r.master
           /\ boot' = [boot EXCEPT ![address] =
                           IF outcome = "hung" THEN [@ EXCEPT !.pc = "blocked"]
                           ELSE IF r.err # Nil THEN [@ EXCEPT !.i = @ + 1]
                           ELSE [@ EXCEPT !.pc = "listen"]]
    /\ UNCHANGED <<csmu, creq, stored, wrote, inflight, now, cs, disk, allocLog, passed, faults>>

\* the loop ends with i = 5 after five failures
RegisterGiveUp(address) ==
    /\ boot[address].pc = "register"
    /\ boot[address].i >= RegisterAttempts
    /\ boot' = [boot EXCEPT ![address].pc = "listen"]
    /\ UNCHANGED <<csmu, creq, stored, wrote, inflight, master, now, cs, disk, allocLog, passed, faults>>

\* how http.ListenAndServe goes: it serves, or it returns an error (the port
\* is taken, the port may not be bound)
ListenOutcomes == {"serving", "failed"}

\* http.HandleFunc("/write"), http.HandleFunc("/read"), the port taken from
\* cs.address, log.Fatal(http.ListenAndServe(...)): when ListenAndServe
\* returns its error log.Fatal ends the process, which has registered or
\* given up by then.  The addresses of the model stand for host:port strings;
\* strings.Split(cs.address, ":")[1] of an address without a colon ends the
\* process at the same place
ListenAndServe(address, outcome) ==
    /\ boot[address].pc = "listen"
    /\ IF outcome = "serving"
       THEN /\ boot' = [boot EXCEPT ![address].pc = "serving"]
            /\ cs' = [cs EXCEPT ![address] = [up |-> TRUE, chunks |-> EmptyMap]]
       ELSE /\ boot' = [boot EXCEPT ![address] = NotStarted]
            /\ cs' = [cs EXCEPT ![address] = NewChunkserver]
    /\ UNCHANGED <<csmu, creq, stored, wrote, inflight, master, now, disk, allocLog, passed, faults>>

\* mutant: the coordinator drops a chunkserver that died from its list
Crash_Unregister(address) ==
    /\ cs[address].up
    /\ faults < MaxFaults
    /\ faults' = faults + 1
    /\ cs' = [cs EXCEPT ![address] = NewChunkserver]
    /\ boot' = [boot EXCEPT ![address] = NotStarted]
    /\ master' = [master EXCEPT !.servers = SelectSeq(@, LAMBDA x : x # address)]
    /\ UNCHANGED <<csmu, creq, stored, wrote, inflight, now, disk, allocLog, passed>>

\* the process dies: its memory is gone, its dataDir stays
Crash(address) ==
    /\ cs[address].up
    /\ faults < MaxFaults
    /\ faults' = faults + 1
    /\ cs' = [cs EXCEPT ![address] = NewChunkserver]
    /\ boot' = [boot EXCEPT ![address] = NotStarted]
    /\ UNCHANGED <<csmu, creq, stored, wrote, inflight, master, now, disk, allocLog, passed>>

(* The chunkserver's operations, called directly over HTTP *)

\* POST or GET /write?chunk=chunkHandle with data as the body; outcome is how
\* the disk write ends, if the handler gets to it
StoreChunk(address, method, chunkHandle, data, outcome) ==
    /\ Reachable(cs, address)
    /\ outcome # "ok" => faults < MaxFaults /\ method = "POST" /\ chunkHandle # ""
    /\ LET w == handleWrite(cs[address].chunks, disk[address], method, chunkHandle,
                            data, outcome)
       IN  /\ cs' = [cs EXCEPT ![address].chunks = w.chunks]
           /\ disk' = [disk EXCEPT ![address] = w.disk]
    /\ stored' = IF method = "POST" /\ chunkHandle # ""
                 THEN LogStore(stored, address, chunkHandle, data, outcome)
                 ELSE stored
    /\ faults' = IF outcome # "ok" THEN faults + 1 ELSE faults
    /\ UNCHANGED <<csmu, creq, boot, wrote, inflight, master, now, allocLog, passed>>

\* how a GET /read ends: with an answer, or with the end of the process.
\* handleRead assigns to the chunks map while it holds the read lock only, so
\* when it does that while the chunkserver handles another GET /read the Go
\* runtime can stop the process ("concurrent map writes", "concurrent map
\* read and map write")
ReadOutcomes == {"answered", "fatal"}

\* handleRead of the handle gets to the assignment to the chunks map
Backfills(C, D, chunkHandle) ==
    chunkHandle # "" /\ chunkHandle \notin DOMAIN C /\ chunkHandle \in DOMAIN D

\* GET /read?chunk=chunkHandle
RetrieveChunk(address, chunkHandle, outcome) ==
    /\ Reachable(cs, address)
    /\ outcome = "fatal" => Backfills(cs[address].chunks, disk[address], chunkHandle)
    /\ IF outcome = "fatal"
       THEN /\ cs' = [cs EXCEPT ![address] = NewChunkserver]
            /\ boot' = [boot EXCEPT ![address] = NotStarted]
       ELSE /\ LET r == handleRead(cs[address].chunks, disk[address], chunkHandle)
               IN  cs' = [cs EXCEPT ![address].chunks = r.chunks]
            /\ UNCHANGED boot
    /\ UNCHANGED <<csmu, creq, stored, wrote, inflight, master, now, disk, allocLog, passed, faults>>

----------------------------------------------------------------------------
(* Client *)

createFile(M, filename, reached) ==
    IF ~reached THEN [master |-> M, err |-> "transport"]
    ELSE LET r == handleCreateFile(M, "POST", filename)
         IN  [master |-> r.master,
              err |-> IF r.status # StatusOK THEN "create failed" ELSE Nil]

\* mutant: the loop ends after its first turn
writeReplicas_FirstOnly(CS, D, out, chunk, i, data, outcomes) ==
    IF i > Len(chunk.Servers) THEN [cs |-> CS, disk |-> D, stores |-> out]
    ELSE LET server == chunk.Servers[i]
         IN  IF ~Reachable(CS, server)
             THEN [cs |-> CS, disk |-> D, stores |-> MapPut(out, server, "unreachable")]
             ELSE LET w == handleWrite(CS[server].chunks, D[server], "POST",
                                       chunk.Handle, data, outcomes[server])
                  IN  [cs |-> [CS EXCEPT ![server].chunks = w.chunks],
                       disk |-> [D EXCEPT ![server] = w.disk],
                       stores |-> MapPut(out, server, outcomes[server])]

\* the loop of writeFile over chunk.Servers from position i on: CS and D are
\* the chunkservers and their disks so far, out the outcome per server
RECURSIVE writeReplicas(_, _, _, _, _, _, _)
writeReplicas(CS, D, out, chunk, i, data, outcomes) ==
    IF i > Len(chunk.Servers) THEN [cs |-> CS, disk |-> D, stores |-> out]
    ELSE LET server == chunk.Servers[i]
         IN  IF ~Reachable(CS, server)
             THEN writeReplicas(CS, D, MapPut(out, server, "unreachable"),
                                chunk, i + 1, data, outcomes)
             ELSE LET w == handleWrite(CS[server].chunks, D[server], "POST",
                                       chunk.Handle, data, outcomes[server])
                  IN  writeReplicas([CS EXCEPT ![server].chunks = w.chunks],
                                    [D EXCEPT ![server] = w.disk],
                                    MapPut(out, server, outcomes[server]),
                                    chunk, i + 1, data, outcomes)

\* mutant: a replica that could not be written fails the whole write
writeFile_FailOnStoreError(M, CS, D, filename, data, t, createReached, allocReached, outcomes) ==
    LET c == createFile(M, filename, createReached)
        a == handleAllocateChunk(c.master, "POST", filename, t)
        Failed(m, status, err) ==
            [master |-> m, cs |-> CS, disk |-> D, status |-> status, err |-> err,
             chunk |-> Null, stores |-> NoStores]
    IN  IF ~allocReached THEN Failed(c.master, 0, "transport")
        ELSE IF a.status # StatusOK
             THEN Failed(a.master, a.status, "chunk allocation failed")
        ELSE LET w == writeReplicas(CS, D, NoStores, a.body, 1, data, outcomes)
             IN  [master |-> a.master, cs |-> w.cs, disk |-> w.disk,
                  status |-> a.status,
                  err |-> IF \E s \in DOMAIN w.stores : w.stores[s] = "unreachable"
                          THEN "write failed" ELSE Nil,
                  chunk |-> a.body, stores |-> w.stores]

\* mutant: a failed allocation undoes the creation of the file
writeFile_RollBack(M, CS, D, filename, data, t, createReached, allocReached, outcomes) ==
    LET c == createFile(M, filename, createReached)
        a == handleAllocateChunk(c.master, "POST", filename, t)
        Failed(m, status, err) ==
            [master |-> m, cs |-> CS, disk |-> D, status |-> status, err |-> err,
             chunk |-> Null, stores |-> NoStores]
    IN  IF ~allocReached THEN Failed(c.master, 0, "transport")
        ELSE IF a.status # StatusOK
             THEN Failed(M, a.status, "chunk allocation failed")
        ELSE LET w == writeReplicas(CS, D, NoStores, a.body, 1, data, outcomes)
             IN  [master |-> a.master, cs |-> w.cs, disk |-> w.disk,
                  status |-> a.status, err |-> Nil, chunk |-> a.body, stores |-> w.stores]

\* Client.writeFile.  createReached and allocReached say whether the two calls
\* to the master got an answer, outcomes what each server's disk write does
writeFile(M, CS, D, filename, data, t, createReached, allocReached, outcomes) ==
    LET c == createFile(M, filename, createReached)
        a == handleAllocateChunk(c.master, "POST", filename, t)
        Failed(m, status, err) ==
            [master |-> m, cs |-> CS, disk |-> D, status |-> status, err |-> err,
             chunk |-> Null, stores |-> NoStores]
    IN  IF ~allocReached THEN Failed(c.master, 0, "transport")
        ELSE IF a.status # StatusOK
             THEN Failed(a.master, a.status, "chunk allocation failed")
        ELSE LET w == writeReplicas(CS, D, NoStores, a.body, 1, data, outcomes)
             IN  [master |-> a.master, cs |-> w.cs, disk |-> w.disk,
                  status |-> a.status, err |-> Nil, chunk |-> a.body, stores |-> w.stores]

\* mutant: a file without chunks is reported as an error
readFile_EmptyIsError(M, CS, D, filename, reached) ==
    LET g == handleGetChunks(M, filename)
        Result(cs1, status, content, err, contacted) ==
            [cs |-> cs1, status |-> status, content |-> content, err |-> err,
             contacted |-> contacted]
    IN  IF ~reached THEN Result(CS, 0, "", "transport", {})
        ELSE IF g.status # StatusOK
             THEN Result(CS, g.status, "", "failed to get chunks", {})
        ELSE IF Len(g.body) = 0 THEN Result(CS, g.status, "", "no chunks", {})
        ELSE LET chunk == g.body[1]
             IN  IF chunk = Null
                 THEN Result(CS, g.status, "", "panic: nil pointer dereference", {})
                 ELSE IF Len(chunk.Servers) = 0
                 THEN Result(CS, g.status, "", "no servers available for chunk", {})
                 ELSE LET server == chunk.Servers[1]
                      IN  IF ~Reachable(CS, server)
                          THEN Result(CS, g.status, "", "transport", {server})
                          ELSE LET got == handleRead(CS[server].chunks, D[server],
                                                    chunk.Handle)
                               IN  Result([CS EXCEPT ![server].chunks = got.chunks],
                                          got.status, got.body, Nil, {server})

\* mutant: the most recently allocated chunk is read instead of the first
readFile_LastChunk(M, CS, D, filename, reached) ==
    LET g == handleGetChunks(M, filename)
        Result(cs1, status, content, err, contacted) ==
            [cs |-> cs1, status |-> status, content |-> content, err |-> err,
             contacted |-> contacted]
    IN  IF ~reached THEN Result(CS, 0, "", "transport", {})
        ELSE IF g.status # StatusOK
             THEN Result(CS, g.status, "", "failed to get chunks", {})
        ELSE IF Len(g.body) = 0 THEN Result(CS, g.status, "", Nil, {})
        ELSE LET chunk == g.body[Len(g.body)]
             IN  IF chunk = Null
                 THEN Result(CS, g.status, "", "panic: nil pointer dereference", {})
                 ELSE IF Len(chunk.Servers) = 0
                 THEN Result(CS, g.status, "", "no servers available for chunk", {})
                 ELSE LET server == chunk.Servers[1]
                      IN  IF ~Reachable(CS, server)
                          THEN Result(CS, g.status, "", "transport", {server})
                          ELSE LET got == handleRead(CS[server].chunks, D[server],
                                                    chunk.Handle)
                               IN  Result([CS EXCEPT ![server].chunks = got.chunks],
                                          got.status, got.body, Nil, {server})

\* Client.readFile.  reached says whether the call to the master got an answer
readFile(M, CS, D, filename, reached) ==
    LET g == handleGetChunks(M, filename)
        Result(cs1, status, content, err, contacted) ==
            [cs |-> cs1, status |-> status, content |-> content, err |-> err,
             contacted |-> contacted]
    IN  IF ~reached THEN Result(CS, 0, "", "transport", {})
        ELSE IF g.status # StatusOK
             THEN Result(CS, g.status, "", "failed to get chunks", {})
        ELSE IF Len(g.body) = 0 THEN Result(CS, g.status, "", Nil, {})
        ELSE LET chunk == g.body[1]
             IN  IF chunk = Null
                 THEN Result(CS, g.status, "", "panic: nil pointer dereference", {})
                 ELSE IF Len(chunk.Servers) = 0
                 THEN Result(CS, g.status, "", "no servers available for chunk", {})
                 ELSE LET server == chunk.Servers[1]
                      IN  IF ~Reachable(CS, server)
                          THEN Result(CS, g.status, "", "transport", {server})
                          ELSE LET got == handleRead(CS[server].chunks, D[server],
                                                    chunk.Handle)
                               IN  Result([CS EXCEPT ![server].chunks = got.chunks],
                                          got.status, got.body, Nil, {server})

\* every disk write succeeds
DiskOk == [s \in Addrs |-> "ok"]

\* the disk writes that can fail: those of running chunkservers, as far as
\* the fault budget allows
Outcomes ==
    {o \in [Addrs -> DiskOutcomes] :
        /\ faults + Cardinality({s \in Addrs : o[s] # "ok"}) <= MaxFaults
        /\ \A s \in Addrs : o[s] # "ok" => cs[s].up}

----------------------------------------------------------------------------
(* The coordinator's handlers as goroutines: net/http runs every request   *)
(* in a goroutine of its own, so handleAllocateChunk and handleGetChunks   *)
(* run statement by statement, interleaved, each between taking and        *)
(* releasing Master.mu.                                                    *)

\* the requests that the handler goroutines serve, one each
MaxRequests == 2

Reqs == 1..MaxRequests

\* sync.RWMutex: unlocked
Unlocked == [writer |-> FALSE, readers |-> 0]

\* no request: the goroutine does not exist
Idle == [pc |-> "idle", kind |-> "", file |-> "", handle |-> "", chunk |-> Null,
         n |-> 0, list |-> <<>>, out |-> <<>>, status |-> 0, with |-> {}]

InFlight(i) == req[i].pc \notin {"idle", "done"}

\* the allocations received and not yet past the handle counter
Allocating == {i \in Reqs : req[i].kind = "allocate" /\
                            req[i].pc \in {"lock", "lookup", "handle", "incr"}}

\* a POST /allocate?file=filename or a GET /chunks?file=filename arrives; the
\* method and the parameter are checked before the lock is taken
Receive(i, kind, filename) ==
    /\ req[i].pc = "idle"
    /\ kind = "allocate" =>
          master.nextChunk + Cardinality(Allocating) <= MaxChunks
    /\ req' = [req EXCEPT ![i] = [Idle EXCEPT !.pc = "lock", !.kind = kind,
                                             !.file = filename,
                                             !.with = {j \in Reqs : InFlight(j)}]]
    /\ UNCHANGED <<csmu, creq, boot, stored, wrote, master, now, cs, disk, allocLog, passed, faults, mu, wr, rd, hung>>

\* a POST /register?server=server arrives; the method and the parameter are
\* checked before the lock is taken
ReceiveRegister(i, server) ==
    /\ req[i].pc = "idle"
    /\ req' = [req EXCEPT ![i] = [Idle EXCEPT !.pc = "lock", !.kind = "register",
                                             !.file = server,
                                             !.with = {j \in Reqs : InFlight(j)}]]
    /\ UNCHANGED <<csmu, creq, boot, stored, wrote, master, now, cs, disk, allocLog, passed, faults, mu, wr, rd, hung>>

\* a POST /create?file=filename arrives
ReceiveCreate(i, filename) ==
    /\ req[i].pc = "idle"
    /\ req' = [req EXCEPT ![i] = [Idle EXCEPT !.pc = "lock", !.kind = "create",
                                             !.file = filename,
                                             !.with = {j \in Reqs : InFlight(j)}]]
    /\ UNCHANGED <<csmu, creq, boot, stored, wrote, master, now, cs, disk, allocLog, passed, faults, mu, wr, rd, hung>>

\* m.mu.Lock() of handleRegisterServer and of handleCreateFile
LockMutator(i) ==
    /\ req[i].pc = "lock" /\ req[i].kind \in {"register", "create"}
    /\ ~mu.writer /\ mu.readers = 0
    /\ mu' = [mu EXCEPT !.writer = TRUE]
    /\ req' = [req EXCEPT ![i].pc = "locked"]
    /\ UNCHANGED <<csmu, creq, boot, stored, wrote, master, now, cs, disk, allocLog, passed, faults, wr, rd, hung>>

\* handleRegisterServer between m.mu.Lock() and its return: the search of
\* m.servers and the append
RegisterLocked(i) ==
    /\ req[i].pc = "locked" /\ req[i].kind = "register"
    /\ LET r == handleRegisterServer(master, "POST", req[i].file)
       IN  /\ master' = r.master
           /\ req' = [req EXCEPT ![i].pc = "unlock", ![i].status = r.status]
    /\ UNCHANGED <<csmu, creq, boot, stored, wrote, now, cs, disk, allocLog, passed, faults, mu, wr, rd, hung>>

\* handleCreateFile between m.mu.Lock() and its return: the exists check and
\* the new FileInfo
CreateLocked(i) ==
    /\ req[i].pc = "locked" /\ req[i].kind = "create"
    /\ LET r == handleCreateFile(master, "POST", req[i].file)
       IN  /\ master' = r.master
           /\ req' = [req EXCEPT ![i].pc = "unlock", ![i].status = r.status]
    /\ passed' = passed \cup {req[i].file}
    /\ UNCHANGED <<csmu, creq, boot, stored, wrote, now, cs, disk, allocLog, faults, mu, wr, rd, hung>>

\* mutant: m.mu.Lock() is missing from handleAllocateChunk
Lock_Missing(i) ==
    /\ req[i].pc = "lock" /\ req[i].kind = "allocate"
    /\ req' = [req EXCEPT ![i].pc = "lookup"]
    /\ UNCHANGED <<csmu, creq, boot, stored, wrote, master, now, cs, disk, allocLog, passed, faults, mu, wr, rd, hung>>

\* m.mu.Lock(): waits until no goroutine holds the mutex
Lock(i) ==
    /\ req[i].pc = "lock" /\ req[i].kind = "allocate"
    /\ ~mu.writer /\ mu.readers = 0
    /\ mu' = [mu EXCEPT !.writer = TRUE]
    /\ req' = [req EXCEPT ![i].pc = "lookup"]
    /\ UNCHANGED <<csmu, creq, boot, stored, wrote, master, now, cs, disk, allocLog, passed, faults, wr, rd, hung>>

\* mutant: the read lock is granted while a writer holds the mutex
RLock_IgnoresWriter(i) ==
    /\ req[i].pc = "lock" /\ req[i].kind = "chunks"
    /\ mu' = [mu EXCEPT !.readers = @ + 1]
    /\ req' = [req EXCEPT ![i].pc = "lookup"]
    /\ UNCHANGED <<csmu, creq, boot, stored, wrote, master, now, cs, disk, allocLog, passed, faults, wr, rd, hung>>

\* mutant: m.mu.RLock() is missing from handleGetChunks
RLock_Missing(i) ==
    /\ req[i].pc = "lock" /\ req[i].kind = "chunks"
    /\ req' = [req EXCEPT ![i].pc = "lookup"]
    /\ UNCHANGED <<csmu, creq, boot, stored, wrote, master, now, cs, disk, allocLog, passed, faults, mu, wr, rd, hung>>

\* m.mu.RLock(): waits until no goroutine holds the mutex for writing
RLock(i) ==
    /\ req[i].pc = "lock" /\ req[i].kind = "chunks"
    /\ ~mu.writer
    /\ mu' = [mu EXCEPT !.readers = @ + 1]
    /\ req' = [req EXCEPT ![i].pc = "lookup"]
    /\ UNCHANGED <<csmu, creq, boot, stored, wrote, master, now, cs, disk, allocLog, passed, faults, wr, rd, hung>>

\* file, exists := m.files[filename]; 404 if it does not exist
Lookup(i) ==
    /\ req[i].pc = "lookup"
    /\ req' = [req EXCEPT ![i] =
          IF req[i].file \notin DOMAIN master.files
          THEN [@ EXCEPT !.status = StatusNotFound, !.pc = "unlock"]
          ELSE [@ EXCEPT !.pc = IF req[i].kind = "allocate" THEN "handle" ELSE "len"]]
    /\ UNCHANGED <<csmu, creq, boot, stored, wrote, master, now, cs, disk, allocLog, passed, faults, mu, wr, rd, hung>>

\* chunkHandle := fmt.Sprintf("chunk_%d", m.nextChunk)
Handle(i) ==
    /\ req[i].pc = "handle"
    /\ req' = [req EXCEPT ![i].handle = ChunkHandle(master.nextChunk), ![i].pc = "incr"]
    /\ UNCHANGED <<csmu, creq, boot, stored, wrote, master, now, cs, disk, allocLog, passed, faults, mu, wr, rd, hung>>

\* m.nextChunk++
Incr(i) ==
    /\ req[i].pc = "incr"
    /\ master' = [master EXCEPT !.nextChunk = @ + 1]
    /\ req' = [req EXCEPT ![i].pc = "select"]
    /\ UNCHANGED <<csmu, creq, boot, stored, wrote, now, cs, disk, allocLog, passed, faults, mu, wr, rd, hung>>

\* servers := m.selectServers(ReplicationFactor); 503 if there is none;
\* chunk := &Chunk{...}
Select(i) ==
    /\ req[i].pc = "select"
    /\ LET selected == selectServers(master.servers, ReplicationFactor)
       IN  req' = [req EXCEPT ![i] =
              IF Len(selected) = 0
              THEN [@ EXCEPT !.status = StatusServiceUnavailable, !.pc = "unlock"]
              ELSE [@ EXCEPT !.chunk = [Handle |-> req[i].handle, Servers |-> selected,
                                        Version |-> 1, Size |-> 0,
                                        Primary |-> selected[1],
                                        LeaseEnd |-> now + LeaseSeconds],
                             !.pc = "store"]]
    /\ UNCHANGED <<csmu, creq, boot, stored, wrote, master, now, cs, disk, allocLog, passed, faults, mu, wr, rd, hung>>

\* m.chunks[chunkHandle] = chunk
Store(i) ==
    /\ req[i].pc = "store"
    /\ master' = [master EXCEPT !.chunks = MapPut(@, req[i].handle, req[i].chunk)]
    /\ req' = [req EXCEPT ![i].pc = "read"]
    /\ UNCHANGED <<csmu, creq, boot, stored, wrote, now, cs, disk, allocLog, passed, faults, mu, wr, rd, hung>>

\* append(file.Chunks, chunkHandle) reads the slice
ReadChunks(i) ==
    /\ req[i].pc = "read"
    /\ req' = [req EXCEPT ![i].list = master.files[req[i].file].Chunks, ![i].pc = "append"]
    /\ UNCHANGED <<csmu, creq, boot, stored, wrote, master, now, cs, disk, allocLog, passed, faults, mu, wr, rd, hung>>

\* file.Chunks = append(...); json.NewEncoder(w).Encode(chunk)
AppendChunk(i) ==
    /\ req[i].pc = "append"
    /\ master' = [master EXCEPT !.files[req[i].file].Chunks = Append(req[i].list, req[i].handle)]
    /\ allocLog' = [allocLog EXCEPT ![req[i].file] = Append(@, req[i].handle)]
    /\ req' = [req EXCEPT ![i].status = StatusOK, ![i].pc = "unlock"]
    /\ UNCHANGED <<csmu, creq, boot, stored, wrote, now, cs, disk, passed, faults, mu, wr, rd, hung>>

\* chunks := make([]*Chunk, len(file.Chunks))
LenChunks(i) ==
    /\ req[i].pc = "len"
    /\ req' = [req EXCEPT ![i].n = Len(master.files[req[i].file].Chunks), ![i].pc = "range"]
    /\ UNCHANGED <<csmu, creq, boot, stored, wrote, master, now, cs, disk, allocLog, passed, faults, mu, wr, rd, hung>>

\* range file.Chunks evaluates the slice once
RangeChunks(i) ==
    /\ req[i].pc = "range"
    /\ req' = [req EXCEPT ![i].list = master.files[req[i].file].Chunks, ![i].pc = "loop"]
    /\ UNCHANGED <<csmu, creq, boot, stored, wrote, master, now, cs, disk, allocLog, passed, faults, mu, wr, rd, hung>>

\* chunks[i] = m.chunks[chunkHandle], an index beyond len(chunks) panics;
\* after the loop json.NewEncoder(w).Encode(chunks)
Loop(i) ==
    /\ req[i].pc = "loop"
    /\ LET k == Len(req[i].out) + 1
       IN  req' = [req EXCEPT ![i] =
              IF k > Len(req[i].list)
              THEN [@ EXCEPT !.status = StatusOK, !.pc = "unlock"]
              ELSE IF k > req[i].n
              THEN [@ EXCEPT !.status = 0, !.out = <<>>, !.pc = "unlock"]
              ELSE [@ EXCEPT !.out = Append(@,
                        IF req[i].list[k] \in DOMAIN master.chunks
                        THEN master.chunks[req[i].list[k]] ELSE Null)]]
    /\ UNCHANGED <<csmu, creq, boot, stored, wrote, master, now, cs, disk, allocLog, passed, faults, mu, wr, rd, hung>>

\* defer m.mu.Unlock()
Unlock(i) ==
    /\ req[i].pc = "unlock" /\ req[i].kind \in {"allocate", "register", "create"}
    /\ mu' = [mu EXCEPT !.writer = FALSE]
    /\ req' = [req EXCEPT ![i].pc = "done"]
    /\ UNCHANGED <<csmu, creq, boot, stored, wrote, master, now, cs, disk, allocLog, passed, faults, wr, rd, hung>>

\* defer m.mu.RUnlock()
RUnlock(i) ==
    /\ req[i].pc = "unlock" /\ req[i].kind = "chunks"
    /\ mu' = [mu EXCEPT !.readers = IF @ > 0 THEN @ - 1 ELSE 0]
    /\ req' = [req EXCEPT ![i].pc = "done"]
    /\ UNCHANGED <<csmu, creq, boot, stored, wrote, master, now, cs, disk, allocLog, passed, faults, wr, rd, hung>>

----------------------------------------------------------------------------
(* The clients inside writeFile and readFile, call by call.  http.Post and *)
(* http.Get use http.DefaultClient, which has no timeout: a call returns   *)
(* when the server answers or the connection fails.  Between two calls of  *)
(* a client the coordinator and the chunkservers serve other requests.     *)

NoWrite == [pc |-> "idle", file |-> "", data |-> "", chunk |-> Null, i |-> 0,
            issued |-> {}, err |-> Nil]

\* c.createFile(filename): POST /create, whose result writeFile ignores
WriteCreate(filename, data) ==
    /\ wr.pc \in {"idle", "done"}
    /\ master.nextChunk <= MaxChunks
    /\ master' = createFile(master, filename, TRUE).master
    /\ wr' = [NoWrite EXCEPT !.pc = "allocate", !.file = filename, !.data = data]
    /\ passed' = passed \cup {filename}
    /\ UNCHANGED <<csmu, creq, boot, stored, wrote, now, cs, disk, allocLog, faults, mu, req, rd, hung>>

\* http.Post(/allocate); the status check and the decoding of the chunk
WriteAllocate ==
    /\ wr.pc = "allocate"
    /\ master.nextChunk <= MaxChunks
    /\ LET a == handleAllocateChunk(master, "POST", wr.file, now)
       IN  /\ master' = a.master
           /\ allocLog' = LogAlloc(allocLog, wr.file, a)
           /\ wrote' = LogWrite(wrote, a, wr.data)
           /\ wr' = IF a.status # StatusOK
                    THEN [NoWrite EXCEPT !.pc = "done", !.err = "chunk allocation failed"]
                    ELSE [wr EXCEPT !.pc = "post", !.chunk = a.body, !.i = 1]
    /\ UNCHANGED <<csmu, creq, boot, stored, now, cs, disk, passed, faults, mu, req, rd, hung>>

\* mutant: the client reports the bytes it stored to the coordinator
WritePost_ReportSize(outcome) ==
    /\ wr.pc = "post"
    /\ wr.i <= Len(wr.chunk.Servers)
    /\ LET server == wr.chunk.Servers[wr.i]
       IN  /\ outcome # "ok" =>
                  faults < MaxFaults /\ Reachable(cs, server) /\ server \notin hung
           /\ faults' = IF outcome # "ok" THEN faults + 1 ELSE faults
           /\ IF ~Reachable(cs, server)
              THEN /\ wr' = [wr EXCEPT !.i = @ + 1]
                   /\ UNCHANGED <<cs, disk, stored>>
              ELSE IF server \in hung
              THEN /\ wr' = [wr EXCEPT !.issued = @ \cup {server}, !.pc = "wait"]
                   /\ UNCHANGED <<cs, disk, stored>>
              ELSE LET w == handleWrite(cs[server].chunks, disk[server], "POST",
                                        wr.chunk.Handle, wr.data, outcome)
                   IN  /\ cs' = [cs EXCEPT ![server].chunks = w.chunks]
                       /\ disk' = [disk EXCEPT ![server] = w.disk]
                       /\ stored' = LogStore(stored, server, wr.chunk.Handle, wr.data,
                                             outcome)
                       /\ wr' = [wr EXCEPT !.issued = @ \cup {server}, !.i = @ + 1]
    /\ master' = IF Reachable(cs, wr.chunk.Servers[wr.i]) /\ wr.chunk.Servers[wr.i] \notin hung
                 THEN [master EXCEPT !.files[wr.file].Size = @ + 1,
                                     !.chunks[wr.chunk.Handle].Size = 1]
                 ELSE master
    /\ UNCHANGED <<csmu, creq, boot, wrote, now, allocLog, passed, mu, req, rd, hung>>

\* one turn of the range loop: http.Post(writeURL, ...) to chunk.Servers[i];
\* an error is logged and the loop continues; a server that never answers
\* leaves the client inside http.Post.  outcome is how os.WriteFile ends on
\* the chunkserver
WritePost(outcome) ==
    /\ wr.pc = "post"
    /\ wr.i <= Len(wr.chunk.Servers)
    /\ LET server == wr.chunk.Servers[wr.i]
       IN  /\ outcome # "ok" =>
                  faults < MaxFaults /\ Reachable(cs, server) /\ server \notin hung
           /\ faults' = IF outcome # "ok" THEN faults + 1 ELSE faults
           /\ IF ~Reachable(cs, server)
              THEN /\ wr' = [wr EXCEPT !.i = @ + 1]
                   /\ UNCHANGED <<cs, disk, stored>>
              ELSE IF server \in hung
              THEN /\ wr' = [wr EXCEPT !.issued = @ \cup {server}, !.pc = "wait"]
                   /\ UNCHANGED <<cs, disk, stored>>
              ELSE LET w == handleWrite(cs[server].chunks, disk[server], "POST",
                                        wr.chunk.Handle, wr.data, outcome)
                   IN  /\ cs' = [cs EXCEPT ![server].chunks = w.chunks]
                       /\ disk' = [disk EXCEPT ![server] = w.disk]
                       /\ stored' = LogStore(stored, server, wr.chunk.Handle, wr.data,
                                             outcome)
                       /\ wr' = [wr EXCEPT !.issued = @ \cup {server}, !.i = @ + 1]
    /\ UNCHANGED <<csmu, creq, boot, wrote, master, now, allocLog, passed, mu, req, rd, hung>>

\* after the loop: log.Printf("Wrote file ..."); return nil
WriteReturn ==
    /\ wr.pc = "post"
    /\ wr.i > Len(wr.chunk.Servers)
    /\ wr' = [NoWrite EXCEPT !.pc = "done"]
    /\ UNCHANGED <<csmu, creq, boot, stored, wrote, master, now, cs, disk, allocLog, passed, faults, mu, req, rd, hung>>

NoRead == [pc |-> "idle", file |-> "", chunk |-> Null, status |-> 0, content |-> "",
           err |-> Nil]

\* readFile up to the decoding of the answer of GET /chunks: the status
\* check, the empty list, the first chunk and its server list
ReadGetChunks(filename) ==
    /\ rd.pc \in {"idle", "done"}
    /\ LET g == handleGetChunks(master, filename)
           Done(status, err) ==
               [NoRead EXCEPT !.pc = "done", !.status = status, !.err = err]
       IN  rd' = IF g.status # StatusOK THEN Done(g.status, "failed to get chunks")
                 ELSE IF Len(g.body) = 0 THEN Done(g.status, Nil)
                 ELSE IF g.body[1] = Null
                      THEN Done(g.status, "panic: nil pointer dereference")
                 ELSE IF Len(g.body[1].Servers) = 0
                      THEN Done(g.status, "no servers available for chunk")
                 ELSE [NoRead EXCEPT !.pc = "read", !.file = filename,
                                     !.chunk = g.body[1]]
    /\ UNCHANGED <<csmu, creq, boot, stored, wrote, master, now, cs, disk, allocLog, passed, faults, mu, req, wr, hung>>

\* http.Get(readURL) to chunk.Servers[0] and io.ReadAll of the answer, whose
\* status is not looked at; outcome is how the chunkserver's handleRead ends
ReadGetChunk(outcome) ==
    /\ rd.pc = "read"
    /\ LET server == rd.chunk.Servers[1]
           handle == rd.chunk.Handle
       IN  /\ outcome = "fatal" =>
                  /\ Reachable(cs, server)
                  /\ Backfills(cs[server].chunks, disk[server], handle)
           /\ IF ~Reachable(cs, server)
              THEN /\ rd' = [NoRead EXCEPT !.pc = "done", !.err = "transport"]
                   /\ UNCHANGED <<cs, boot>>
              ELSE IF outcome = "fatal"
              THEN /\ rd' = [NoRead EXCEPT !.pc = "done", !.err = "transport"]
                   /\ cs' = [cs EXCEPT ![server] = NewChunkserver]
                   /\ boot' = [boot EXCEPT ![server] = NotStarted]
              ELSE LET r == handleRead(cs[server].chunks, disk[server], handle)
                   IN  /\ rd' = [NoRead EXCEPT !.pc = "done", !.status = r.status,
                                               !.content = r.body]
                       /\ cs' = [cs EXCEPT ![server].chunks = r.chunks]
                       /\ UNCHANGED boot
    /\ UNCHANGED <<csmu, creq, stored, wrote, master, now, disk, allocLog, passed, faults, mu, req, wr, hung>>

\* the chunkserver at the address stops answering
Hang(address) ==
    /\ faults < MaxFaults
    /\ address \notin hung
    /\ faults' = faults + 1
    /\ hung' = hung \cup {address}
    /\ UNCHANGED <<csmu, creq, boot, stored, wrote, master, now, cs, disk, allocLog, passed, mu, req, wr, rd>>

----------------------------------------------------------------------------
(* The handlers of one chunkserver as goroutines: handleWrite and          *)
(* handleRead run statement by statement, interleaved, each between taking *)
(* and releasing Chunkserver.mu.  os.WriteFile truncates the file when it  *)
(* opens it and writes the bytes afterwards.                               *)

\* the chunkserver whose handlers are followed, and the handle they work on
RaceAddr == "s1"

RaceHandle == ChunkHandle(1)

\* the handler goroutines, one request each
CsReqs == 1..MaxRequests

CsUnlocked == [writer |-> FALSE, readers |-> 0]

\* seen is history: what RetrieveChunk of the goroutine's handle would have
\* answered in each state since the request arrived
CsIdle == [pc |-> "idle", kind |-> "", handle |-> "", data |-> "", status |-> 0,
           body |-> "", seen |-> {}]

CsInFlight(i) == creq[i].pc \notin {"idle", "done", "reset"}

Answer(r) == [status |-> r.status, body |-> r.body]

\* the goroutines R, the retrieves in flight having seen memory C and disk D
Observe(R, C, D) ==
    [i \in DOMAIN R |->
        IF R[i].kind = "read" /\ R[i].pc \notin {"idle", "done", "reset"}
        THEN [R[i] EXCEPT !.seen = @ \cup {Answer(handleRead(C, D, R[i].handle))}]
        ELSE R[i]]

\* the steps of the handlers leave everything but the chunkserver alone
CsFrame == UNCHANGED <<boot, wrote, inflight, master, now, allocLog, passed, faults>>

\* a request arrives: the method and the chunk parameter are checked, and
\* handleWrite reads the body
CsReceive(i, kind, chunkHandle, data) ==
    /\ Reachable(cs, RaceAddr)
    /\ creq[i].pc = "idle"
    /\ creq' = Observe([creq EXCEPT ![i] =
                            [CsIdle EXCEPT !.pc = IF kind = "write" THEN "lock" ELSE "rlock",
                                           !.kind = kind, !.handle = chunkHandle,
                                           !.data = data]],
                       cs[RaceAddr].chunks, disk[RaceAddr])
    /\ CsFrame
    /\ UNCHANGED <<cs, disk, csmu, stored>>

\* mutant: handleWrite takes no lock
CsLock_Missing(i) ==
    /\ creq[i].pc = "lock"
    /\ creq' = [creq EXCEPT ![i].pc = "mem"]
    /\ CsFrame
    /\ UNCHANGED <<cs, disk, csmu, stored>>

\* cs.mu.Lock() of handleWrite
CsLock(i) ==
    /\ creq[i].pc = "lock"
    /\ ~csmu.writer /\ csmu.readers = 0
    /\ csmu' = [csmu EXCEPT !.writer = TRUE]
    /\ creq' = [creq EXCEPT ![i].pc = "mem"]
    /\ CsFrame
    /\ UNCHANGED <<cs, disk, stored>>

\* cs.chunks[chunkHandle] = data
CsStoreMem(i) ==
    /\ creq[i].pc = "mem"
    /\ cs' = [cs EXCEPT ![RaceAddr].chunks = MapPut(@, creq[i].handle, creq[i].data)]
    /\ creq' = Observe([creq EXCEPT ![i].pc = "open"], cs'[RaceAddr].chunks, disk[RaceAddr])
    /\ CsFrame
    /\ UNCHANGED <<disk, csmu, stored>>

\* os.WriteFile opens the file with O_CREATE and O_TRUNC
CsOpen(i) ==
    /\ creq[i].pc = "open"
    /\ disk' = [disk EXCEPT ![RaceAddr] = MapPut(@, creq[i].handle, "")]
    /\ creq' = Observe([creq EXCEPT ![i].pc = "write"], cs[RaceAddr].chunks, disk'[RaceAddr])
    /\ CsFrame
    /\ UNCHANGED <<cs, csmu, stored>>

\* os.WriteFile writes the bytes and closes the file
CsWrite(i) ==
    /\ creq[i].pc = "write"
    /\ disk' = [disk EXCEPT ![RaceAddr] = MapPut(@, creq[i].handle, creq[i].data)]
    /\ stored' = LogStore(stored, RaceAddr, creq[i].handle, creq[i].data, "ok")
    /\ creq' = Observe([creq EXCEPT ![i].pc = "unlock"], cs[RaceAddr].chunks, disk'[RaceAddr])
    /\ CsFrame
    /\ UNCHANGED <<cs, csmu>>

\* w.WriteHeader(http.StatusOK) and the deferred cs.mu.Unlock()
CsUnlock(i) ==
    /\ creq[i].pc = "unlock"
    /\ csmu' = [csmu EXCEPT !.writer = FALSE]
    /\ creq' = [creq EXCEPT ![i].pc = "done", ![i].status = StatusOK]
    /\ CsFrame
    /\ UNCHANGED <<cs, disk, stored>>

\* mutant: a retrieve takes the read lock while a store holds the lock
CsRLock_IgnoresWriter(i) ==
    /\ creq[i].pc = "rlock"
    /\ csmu' = [csmu EXCEPT !.readers = @ + 1]
    /\ creq' = [creq EXCEPT ![i].pc = "lookup"]
    /\ CsFrame
    /\ UNCHANGED <<cs, disk, stored>>

\* cs.mu.RLock() of handleRead
CsRLock(i) ==
    /\ creq[i].pc = "rlock"
    /\ ~csmu.writer
    /\ csmu' = [csmu EXCEPT !.readers = @ + 1]
    /\ creq' = [creq EXCEPT ![i].pc = "lookup"]
    /\ CsFrame
    /\ UNCHANGED <<cs, disk, stored>>

\* data, exists := cs.chunks[chunkHandle]; with the chunk in memory the
\* handler goes on to w.Write(data)
CsLookup(i) ==
    /\ creq[i].pc = "lookup"
    /\ creq' = IF creq[i].handle \in DOMAIN cs[RaceAddr].chunks
               THEN [creq EXCEPT ![i].pc = "runlock", ![i].status = StatusOK,
                                 ![i].body = cs[RaceAddr].chunks[creq[i].handle]]
               ELSE [creq EXCEPT ![i].pc = "readdisk"]
    /\ CsFrame
    /\ UNCHANGED <<cs, disk, csmu, stored>>

\* os.ReadFile(chunkPath); an error is answered with 404
CsReadDisk(i) ==
    /\ creq[i].pc = "readdisk"
    /\ creq' = IF creq[i].handle \in DOMAIN disk[RaceAddr]
               THEN [creq EXCEPT ![i].pc = "backfill",
                                 ![i].data = disk[RaceAddr][creq[i].handle]]
               ELSE [creq EXCEPT ![i].pc = "runlock", ![i].status = StatusNotFound,
                                 ![i].body = "Chunk not found\n"]
    /\ CsFrame
    /\ UNCHANGED <<cs, disk, csmu, stored>>

\* cs.chunks[chunkHandle] = data under the read lock, then w.Write(data)
CsBackfill(i) ==
    /\ creq[i].pc = "backfill"
    /\ cs' = [cs EXCEPT ![RaceAddr].chunks = MapPut(@, creq[i].handle, creq[i].data)]
    /\ creq' = Observe([creq EXCEPT ![i].pc = "runlock", ![i].status = StatusOK,
                                    ![i].body = creq[i].data],
                       cs'[RaceAddr].chunks, disk[RaceAddr])
    /\ CsFrame
    /\ UNCHANGED <<disk, csmu, stored>>

\* the map write of one handleRead meets the map access of another one that
\* holds the read lock too: the Go runtime can detect it ("concurrent map
\* writes", "concurrent map read and map write") and end the process, which
\* can be started again
CsFatal(i) ==
    /\ creq[i].pc = "backfill"
    /\ \E j \in CsReqs \ {i} : creq[j].pc \in {"lookup", "backfill"}
    /\ cs' = [cs EXCEPT ![RaceAddr] = NewChunkserver]
    /\ boot' = [boot EXCEPT ![RaceAddr] = NotStarted]
    /\ csmu' = CsUnlocked
    /\ creq' = [j \in CsReqs |->
                  IF CsInFlight(j) THEN [creq[j] EXCEPT !.pc = "reset"] ELSE creq[j]]
    /\ UNCHANGED <<wrote, inflight, master, now, allocLog, passed, faults, disk, stored>>

\* the process is killed while handlers run: the chunks map and the
\* goroutines are gone, the dataDir stays as the last statement left it, and
\* the process can be started again
CsKill ==
    /\ Reachable(cs, RaceAddr)
    /\ ~(\A i \in CsReqs : ~CsInFlight(i))
    /\ cs' = [cs EXCEPT ![RaceAddr] = NewChunkserver]
    /\ boot' = [boot EXCEPT ![RaceAddr] = NotStarted]
    /\ csmu' = CsUnlocked
    /\ creq' = [j \in CsReqs |->
                  IF CsInFlight(j) THEN [creq[j] EXCEPT !.pc = "reset"] ELSE creq[j]]
    /\ UNCHANGED <<wrote, inflight, master, now, allocLog, passed, faults, disk, stored>>

\* the deferred cs.mu.RUnlock()
CsRUnlock(i) ==
    /\ creq[i].pc = "runlock"
    /\ csmu' = [csmu EXCEPT !.readers = @ - 1]
    /\ creq' = [creq EXCEPT ![i].pc = "done"]
    /\ CsFrame
    /\ UNCHANGED <<cs, disk, stored>>

----------------------------------------------------------------------------
(* Specifications *)

\* the ?chunk= parameter: a handle the coordinator gives out, "" if missing
HandleInputs == {ChunkHandle(n) : n \in 1..MaxChunks} \cup {""}

Init ==
    /\ master = NewMaster
    /\ now = 0
    /\ cs = [s \in Addrs |-> NewChunkserver]
    /\ disk = [s \in Addrs |-> EmptyMap]
    /\ allocLog = NoLog
    /\ passed = {}
    /\ faults = 0
    /\ mu = Unlocked
    /\ req = [i \in Reqs |-> Idle]
    /\ wr = NoWrite
    /\ rd = NoRead
    /\ hung = {}
    /\ wrote = EmptyMap
    /\ stored = NoneStored
    /\ boot = [s \in Addrs |-> NotStarted]
    /\ csmu = CsUnlocked
    /\ creq = [i \in CsReqs |-> CsIdle]

(* The coordinator alone, under any sequence of requests *)

MasterNext ==
    \/ \E method \in Methods, server \in AddrInputs : RegisterServer(method, server)
    \/ \E method \in Methods, filename \in PathInputs : CreateFile(method, filename)
    \/ \E filename \in PathInputs : GetChunkLocations(filename)
    \/ \E method \in Methods, filename \in PathInputs : AllocateChunk(method, filename)

MasterSpec == Init /\ [][MasterNext]_vars

(* The coordinator under concurrent requests: servers register and files  *)
(* are created while no handler holds the mutex (handleRegisterServer and  *)
(* handleCreateFile hold it from their first to their last access), and    *)
(* MaxRequests allocations and lookups run statement by statement.         *)

ConcAddrs == {"s1"}

ConcPaths == {"f1"}

ConcNext ==
    \/ \E server \in ConcAddrs :
          ~mu.writer /\ mu.readers = 0 /\ RegisterServer("POST", server)
    \/ \E filename \in ConcPaths :
          ~mu.writer /\ mu.readers = 0 /\ CreateFile("POST", filename)
    \/ \E filename \in ConcPaths :
          /\ ~mu.writer /\ mu.readers = 0
          /\ master.nextChunk + Cardinality(Allocating) <= MaxChunks
          /\ AllocateChunk("POST", filename)
    \/ \E i \in Reqs, kind \in {"allocate", "chunks"}, filename \in ConcPaths :
          Receive(i, kind, filename)
    \/ \E i \in Reqs, server \in ConcAddrs : ReceiveRegister(i, server)
    \/ \E i \in Reqs, filename \in ConcPaths : ReceiveCreate(i, filename)
    \/ \E i \in Reqs : LockMutator(i)
    \/ \E i \in Reqs : RegisterLocked(i)
    \/ \E i \in Reqs : CreateLocked(i)
    \/ \E i \in Reqs : Lock(i)
    \/ \E i \in Reqs : RLock(i)
    \/ \E i \in Reqs : Lookup(i)
    \/ \E i \in Reqs : Handle(i)
    \/ \E i \in Reqs : Incr(i)
    \/ \E i \in Reqs : Select(i)
    \/ \E i \in Reqs : Store(i)
    \/ \E i \in Reqs : ReadChunks(i)
    \/ \E i \in Reqs : AppendChunk(i)
    \/ \E i \in Reqs : LenChunks(i)
    \/ \E i \in Reqs : RangeChunks(i)
    \/ \E i \in Reqs : Loop(i)
    \/ \E i \in Reqs : Unlock(i)
    \/ \E i \in Reqs : RUnlock(i)

ConcSpec == Init /\ [][ConcNext]_vars

(* One client writing to three chunkservers, some of which stop           *)
(* answering.  The client is scheduled fairly: a call that can return      *)
(* returns, and the loop goes on when it can.                              *)

FanoutPaths == {"f1"}

FanoutNext ==
    \/ \E address \in Addrs : StartProcess(address)
    \/ \E address \in Addrs : RegisterAttempt(address, "answered")
    \/ \E address \in Addrs, outcome \in ListenOutcomes : ListenAndServe(address, outcome)
    \/ \E address \in Addrs : Hang(address)
    \/ \E filename \in FanoutPaths, data \in Data : WriteCreate(filename, data)
    \/ WriteAllocate
    \/ WritePost("ok")
    \/ WriteReturn

FanoutSpec ==
    /\ Init /\ [][FanoutNext]_vars
    /\ WF_vars(WriteAllocate) /\ WF_vars(WritePost("ok")) /\ WF_vars(WriteReturn)

(* The replication test of the README: three chunkservers, one client     *)
(* that writes and reads a file, and chunkservers that are stopped.        *)

ReplicaPaths == {"f1"}

\* the -data of the writes of these runs
WriteData == {"a"}

ReplicaNext ==
    \/ \E address \in Addrs : StartProcess(address)
    \/ \E address \in Addrs : RegisterAttempt(address, "answered")
    \/ \E address \in Addrs, outcome \in ListenOutcomes : ListenAndServe(address, outcome)
    \/ \E address \in Addrs : Crash(address)
    \/ \E filename \in ReplicaPaths, data \in WriteData : WriteCreate(filename, data)
    \/ WriteAllocate
    \/ WritePost("ok")
    \/ WriteReturn
    \/ \E filename \in ReplicaPaths : ReadGetChunks(filename)
    \/ \E outcome \in ReadOutcomes : ReadGetChunk(outcome)

ReplicaSpec == Init /\ [][ReplicaNext]_vars

(* The multiple-file test of the README and of demo.sh: two chunkservers   *)
(* start, a client writes several files call by call, and chunks are read. *)

FilesAddrs == {"s1", "s2"}

FilesNext ==
    \/ \E address \in FilesAddrs : StartProcess(address)
    \/ \E address \in FilesAddrs : RegisterAttempt(address, "answered")
    \/ \E address \in FilesAddrs, outcome \in ListenOutcomes : ListenAndServe(address, outcome)
    \/ \E filename \in Paths, data \in Data : WriteCreate(filename, data)
    \/ WriteAllocate
    \/ WritePost("ok")
    \/ WriteReturn
    \/ \E address \in FilesAddrs, chunkHandle \in HandleInputs \ {""}, outcome \in ReadOutcomes :
          RetrieveChunk(address, chunkHandle, outcome)

FilesSpec == Init /\ [][FilesNext]_vars

(* Leases: one chunkserver, one file, allocations, writes and reads while  *)
(* time passes, so that leases run out.                                    *)

LeaseAddrs == {"s1"}

LeasePaths == {"f1"}

LeaseNext ==
    \/ Tick
    \/ \E address \in LeaseAddrs : StartProcess(address)
    \/ \E address \in LeaseAddrs : RegisterAttempt(address, "answered")
    \/ \E address \in LeaseAddrs, outcome \in ListenOutcomes : ListenAndServe(address, outcome)
    \/ \E filename \in LeasePaths : CreateFile("POST", filename)
    \/ \E filename \in LeasePaths : AllocateChunk("POST", filename)
    \/ \E filename \in LeasePaths : GetChunkLocations(filename)
    \/ \E filename \in LeasePaths, data \in Data : WriteCreate(filename, data)
    \/ WriteAllocate
    \/ WritePost("ok")
    \/ WriteReturn
    \/ \E filename \in LeasePaths : ReadGetChunks(filename)
    \/ \E outcome \in ReadOutcomes : ReadGetChunk(outcome)

LeaseSpec == Init /\ [][LeaseNext]_vars

(* One chunkserver under concurrent requests for one handle: it starts,   *)
(* stores and crashes while no handler runs, and MaxRequests stores and    *)
(* retrieves run statement by statement.                                   *)

RaceQuiet == \A i \in CsReqs : ~CsInFlight(i)

RaceNext ==
    \/ StartProcess(RaceAddr)
    \/ RegisterAttempt(RaceAddr, "answered")
    \/ \E outcome \in ListenOutcomes : ListenAndServe(RaceAddr, outcome)
    \/ RaceQuiet /\ Crash(RaceAddr)
    \/ \E data \in Data : RaceQuiet /\ StoreChunk(RaceAddr, "POST", RaceHandle, data, "ok")
    \/ \E i \in CsReqs, data \in Data : CsReceive(i, "write", RaceHandle, data)
    \/ \E i \in CsReqs : CsReceive(i, "read", RaceHandle, "")
    \/ \E i \in CsReqs : CsLock(i)
    \/ \E i \in CsReqs : CsStoreMem(i)
    \/ \E i \in CsReqs : CsOpen(i)
    \/ \E i \in CsReqs : CsWrite(i)
    \/ \E i \in CsReqs : CsUnlock(i)
    \/ \E i \in CsReqs : CsRLock(i)
    \/ \E i \in CsReqs : CsLookup(i)
    \/ \E i \in CsReqs : CsReadDisk(i)
    \/ \E i \in CsReqs : CsBackfill(i)
    \/ \E i \in CsReqs : CsFatal(i)
    \/ \E i \in CsReqs : CsRUnlock(i)

RaceSpec == Init /\ [][RaceNext]_vars

(* The same chunkserver when it can also be killed while handlers run.     *)

CacheNext ==
    \/ RaceNext
    \/ CsKill

CacheSpec == Init /\ [][CacheNext]_vars

(* One chunkserver alone, under any sequence of requests, crashes and     *)
(* restarts; it serves whether or not its registration succeeded.          *)

ChunkAddrs == {"s1"}

ChunkserverNext ==
    \/ \E address \in ChunkAddrs : StartProcess(address)
    \/ \E address \in ChunkAddrs, outcome \in {"answered", "refused"} :
          RegisterAttempt(address, outcome)
    \/ \E address \in ChunkAddrs : RegisterGiveUp(address)
    \/ \E address \in ChunkAddrs, outcome \in ListenOutcomes : ListenAndServe(address, outcome)
    \/ \E address \in ChunkAddrs : Crash(address)
    \/ \E address \in ChunkAddrs, method \in Methods, chunkHandle \in HandleInputs,
          data \in Data, outcome \in DiskOutcomes :
            StoreChunk(address, method, chunkHandle, data, outcome)
    \/ \E address \in ChunkAddrs, chunkHandle \in HandleInputs, outcome \in ReadOutcomes :
          RetrieveChunk(address, chunkHandle, outcome)

ChunkserverSpec == Init /\ [][ChunkserverNext]_vars

(* Chunkservers starting up statement by statement while the coordinator   *)
(* answers, refuses or hangs; a file is created and chunks are allocated    *)
(* and stored in between.  The goroutine running Chunkserver.start keeps    *)
(* running, and time.Sleep returns: weak fairness on each of its steps.     *)

StartAddrs == {"s1", "s2"}

StartPaths == {"f1"}

StartNext ==
    \/ \E address \in StartAddrs : StartProcess(address)
    \/ \E address \in StartAddrs, outcome \in RegisterOutcomes :
          RegisterAttempt(address, outcome)
    \/ \E address \in StartAddrs : RegisterGiveUp(address)
    \/ \E address \in StartAddrs, outcome \in ListenOutcomes : ListenAndServe(address, outcome)
    \/ \E filename \in StartPaths : CreateFile("POST", filename)
    \/ \E filename \in StartPaths : AllocateChunk("POST", filename)
    \/ \E address \in StartAddrs : StoreChunk(address, "POST", ChunkHandle(1), "a", "ok")
    \/ \E address \in StartAddrs, outcome \in ReadOutcomes :
          RetrieveChunk(address, ChunkHandle(1), outcome)

StartFairness ==
    \A address \in StartAddrs :
        /\ WF_vars(\E outcome \in RegisterOutcomes : RegisterAttempt(address, outcome))
        /\ WF_vars(RegisterGiveUp(address))
        /\ WF_vars(\E outcome \in ListenOutcomes : ListenAndServe(address, outcome))

StartSpec == Init /\ [][StartNext]_vars /\ StartFairness

(* The whole system: two chunkserver processes start, crash and are        *)
(* started again; one client writes a file call by call, its disk writes   *)
(* succeeding or failing; other clients read any chunk from any            *)
(* chunkserver, one at a time or two at once.                              *)

SpecAddrs == {"s1", "s2"}

WritePaths == {"f1"}

Next ==
    \/ \E address \in SpecAddrs : StartProcess(address)
    \/ \E address \in SpecAddrs : RegisterAttempt(address, "answered")
    \/ \E address \in SpecAddrs, outcome \in ListenOutcomes : ListenAndServe(address, outcome)
    \/ \E address \in SpecAddrs : Crash(address)
    \/ \E filename \in WritePaths, data \in WriteData : WriteCreate(filename, data)
    \/ WriteAllocate
    \/ \E outcome \in DiskOutcomes : WritePost(outcome)
    \/ WriteReturn
    \/ \E address \in SpecAddrs, chunkHandle \in HandleInputs \ {""}, outcome \in ReadOutcomes :
          RetrieveChunk(address, chunkHandle, outcome)

Spec == Init /\ [][Next]_vars

----------------------------------------------------------------------------
(* Properties of the client operations, under Spec.  Each is stated of a   *)
(* call that starts in a reachable state, the state in the middle of       *)
(* another client's writeFile and of a chunkserver's start included, and   *)
(* that runs from its first to its last request with no step of another    *)
(* process in between.                                                     *)

Range(seq) == {seq[i] : i \in 1..Len(seq)}

\* what WriteFile(filename, data) returns and leaves behind in the current
\* state, the disk writes ending as outcomes says
WriteNow(filename, data, outcomes) ==
    writeFile(master, cs, disk, filename, data, now, TRUE, TRUE, outcomes)

\* what ReadFile(filename) returns in the current state
ReadNow(filename) == readFile(master, cs, disk, filename, TRUE)

\* what ReadFile(filename) returns immediately after the write w
ReadAfter(w, filename) == readFile(w.master, w.cs, w.disk, filename, TRUE)

\* the allocation of the write w succeeded, its StoreChunk reached every
\* selected replica and every disk write succeeded
WroteToAll(w) ==
    /\ w.status = StatusOK
    /\ \A s \in DOMAIN w.stores : w.stores[s] = "ok"

\* the server holds the chunk, in memory or on disk
Holds(CS, D, s, handle) == handle \in DOMAIN CS[s].chunks \/ handle \in DOMAIN D[s]

\* C1 as stated: in any reachable state, a WriteFile(path, data) that reached
\* all its replicas, followed immediately by ReadFile(path), returns data.
C1_RoundTripAnyState ==
    \A f \in Paths, d \in Data :
        LET w == WriteNow(f, d, DiskOk)
        IN  WroteToAll(w) =>
               LET r == ReadAfter(w, f)
               IN  r.err = Nil /\ r.content = d

\* C1 amended: a WriteFile(path, data) to a file that has no chunk before it
\* and that reached all its replicas, followed immediately by ReadFile(path),
\* returns exactly data.
C1_RoundTripFirstWrite ==
    \A f \in Paths, d \in Data :
        LET w == WriteNow(f, d, DiskOk)
        IN  (WroteToAll(w) /\ Len(w.master.files[f].Chunks) = 1) =>
               LET r == ReadAfter(w, f)
               IN  r.err = Nil /\ r.content = d

\* a first write went to two replicas, both hold the data, and the read
\* returns it from the first
C1_Witness ==
    \E f \in DOMAIN master.files, d \in Data :
        /\ Len(master.files[f].Chunks) = 1
        /\ LET chunk == master.chunks[master.files[f].Chunks[1]]
           IN  /\ Len(chunk.Servers) = 2
               /\ \A s \in Range(chunk.Servers) :
                     /\ Reachable(cs, s)
                     /\ chunk.Handle \in DOMAIN cs[s].chunks
                     /\ cs[s].chunks[chunk.Handle] = d
                     /\ chunk.Handle \in DOMAIN disk[s]
                     /\ disk[s][chunk.Handle] = d
               /\ ReadNow(f).contacted = {chunk.Servers[1]}
        /\ ReadNow(f).err = Nil
        /\ ReadNow(f).content = d

\* C2: a ReadFile whose replica is reachable and answers that it does not
\* hold the chunk fails with an error instead of returning content.
C2_ReadOfMissingChunkFails ==
    \A f \in Paths :
        LET r == ReadNow(f)
        IN  (r.contacted # {} /\ r.status = StatusNotFound) => r.err # Nil

\* C3: a WriteFile whose allocation succeeded returns no error whatever the
\* replica stores did; StoreChunk went once to each replica of the list, and
\* a replica whose store failed does not hold the chunk afterwards.
C3_WriteSucceedsDespiteStores ==
    \A f \in Paths, d \in Data, o \in Outcomes :
        LET w == WriteNow(f, d, o)
        IN  w.status = StatusOK =>
               /\ w.err = Nil
               /\ DOMAIN w.stores = Range(w.chunk.Servers)
               /\ \A s \in DOMAIN w.stores :
                     /\ w.stores[s] = "unreachable" =>
                           ~Holds(w.cs, w.disk, s, w.chunk.Handle)
                     /\ w.stores[s] = "open_failed" =>
                           w.chunk.Handle \notin DOMAIN w.disk[s]
                     /\ w.stores[s] = "write_failed" =>
                           w.disk[s][w.chunk.Handle] # d

\* a chunk was allocated by a write none of whose stores arrived, and a
\* write in this state again succeeds with every store failing
C3_Witness ==
    /\ \E h \in DOMAIN master.chunks :
          \A s \in Range(master.chunks[h].Servers) : ~Holds(cs, disk, s, h)
    /\ \E f \in Paths, d \in Data, o \in Outcomes :
          LET w == WriteNow(f, d, o)
          IN  /\ w.status = StatusOK
              /\ w.err = Nil
              /\ DOMAIN w.stores # {}
              /\ \A s \in DOMAIN w.stores : w.stores[s] = "unreachable"

\* C4: for a path never passed to CreateFile or WriteFile, GetChunkLocations
\* answers NotFound and ReadFile returns an error and no content, whatever
\* was done to other paths.
C4_UnknownPathNotFound ==
    \A p \in Paths \ passed :
        LET r == ReadNow(p)
        IN  /\ handleGetChunks(master, p).status = StatusNotFound
            /\ r.err # Nil
            /\ r.content = ""
            /\ r.contacted = {}

\* another path was written and reads back, this one was never passed
C4_Witness ==
    \E p \in Paths \ passed, q \in passed :
        /\ q \in DOMAIN master.files
        /\ Len(master.files[q].Chunks) > 0
        /\ ReadNow(q).err = Nil
        /\ ReadNow(q).content \in Data
        /\ handleGetChunks(master, p).status = StatusNotFound
        /\ ReadNow(p).err # Nil

\* C8: ReadFile of a file that exists and has no chunk returns empty content
\* and no error, and contacts no chunkserver.
C8_ReadOfEmptyFile ==
    \A f \in DOMAIN master.files :
        Len(master.files[f].Chunks) = 0 =>
            LET r == ReadNow(f)
            IN  /\ r.err = Nil
                /\ r.content = ""
                /\ r.contacted = {}
                /\ r.cs = cs

\* a file without chunks while a registered chunkserver is serving
C8_Witness ==
    \E f \in DOMAIN master.files :
        /\ Len(master.files[f].Chunks) = 0
        /\ ReadNow(f).err = Nil
        /\ ReadNow(f).content = ""
        /\ \E s \in Range(master.servers) : Reachable(cs, s)

----------------------------------------------------------------------------
(* Properties of the coordinator, under MasterSpec *)

Min(a, b) == IF a < b THEN a ELSE b

NoDuplicates(seq) == \A i, j \in 1..Len(seq) : seq[i] = seq[j] => i = j

HandlesOf(records) == [i \in 1..Len(records) |-> records[i].Handle]

\* C5: the successful allocations of a file return pairwise distinct handles,
\* and GetChunkLocations returns the records of exactly these handles in the
\* order of the calls.
C5_AllocationOrder ==
    \A f \in Paths :
        /\ NoDuplicates(allocLog[f])
        /\ f \in DOMAIN master.files =>
              /\ handleGetChunks(master, f).status = StatusOK
              /\ HandlesOf(handleGetChunks(master, f).body) = allocLog[f]
        /\ f \notin DOMAIN master.files => allocLog[f] = <<>>

C5_Witness ==
    \E f \in DOMAIN master.files :
        /\ Len(allocLog[f]) >= 2
        /\ allocLog[f][1] # allocLog[f][2]
        /\ HandlesOf(handleGetChunks(master, f).body) = allocLog[f]

\* C6: registering an address that is already registered answers 200 and
\* leaves the coordinator as it was; no address occurs twice in the server
\* list or in the replica list of any chunk.
C6_RegisterIdempotent ==
    /\ \A server \in Range(master.servers) :
          handleRegisterServer(master, "POST", server) = Reply(master, StatusOK, "")
    /\ NoDuplicates(master.servers)
    /\ \A h \in DOMAIN master.chunks : NoDuplicates(master.chunks[h].Servers)

\* several servers are registered and a chunk was allocated on two of them
C6_Witness ==
    /\ Len(master.servers) >= 2
    /\ handleRegisterServer(master, "POST", master.servers[1]).status = StatusOK
    /\ handleRegisterServer(master, "POST", master.servers[1]).master.servers = master.servers
    /\ \E h \in DOMAIN master.chunks : Len(master.chunks[h].Servers) >= 2

\* C7: AllocateChunk for an existing file returns a replica list of length
\* min(ReplicationFactor, number of registered servers), and answers 503 when
\* no server is registered.
C7_ReplicaCount ==
    \A f \in DOMAIN master.files :
        LET r == handleAllocateChunk(master, "POST", f, now)
        IN  IF Len(master.servers) = 0
            THEN r.status = StatusServiceUnavailable
            ELSE /\ r.status = StatusOK
                 /\ Len(r.body.Servers) = Min(ReplicationFactor, Len(master.servers))
                 /\ r.master.chunks[r.body.Handle] = r.body

\* more servers are registered than a chunk gets replicas
C7_Witness ==
    /\ Len(master.servers) > ReplicationFactor
    /\ \E f \in DOMAIN master.files :
          LET r == handleAllocateChunk(master, "POST", f, now)
          IN  r.status = StatusOK /\ Len(r.body.Servers) = ReplicationFactor

\* C9: CreateFile of an unknown path adds a FileRecord with an empty chunk
\* list; of a known path it answers 409 and changes nothing.
C9_CreateFile ==
    \A f \in Paths :
        LET r == handleCreateFile(master, "POST", f)
        IN  IF f \in DOMAIN master.files
            THEN /\ r.status = StatusConflict
                 /\ r.master = master
            ELSE /\ r.status = StatusOK
                 /\ DOMAIN r.master.files = DOMAIN master.files \cup {f}
                 /\ r.master.files[f].Chunks = <<>>
                 /\ \A g \in DOMAIN master.files : r.master.files[g] = master.files[g]
                 /\ r.master.chunks = master.chunks
                 /\ r.master.servers = master.servers
                 /\ r.master.nextChunk = master.nextChunk

\* a file that has a chunk, so that creating it again must keep the chunk
C9_Witness ==
    \E f \in DOMAIN master.files :
        /\ Len(master.files[f].Chunks) > 0
        /\ handleCreateFile(master, "POST", f).status = StatusConflict

\* C10: AllocateChunk of an unknown path answers 404 and leaves the
\* namespace, the chunk table, the server list and the handle counter as
\* they were, whether or not a server is registered.
C10_AllocateUnknownFile ==
    \A f \in Paths \ DOMAIN master.files :
        LET r == handleAllocateChunk(master, "POST", f, now)
        IN  /\ r.status = StatusNotFound
            /\ r.master = master

\* an unknown path while servers are registered and another file has chunks
C10_Witness ==
    /\ Len(master.servers) > 0
    /\ DOMAIN master.chunks # {}
    /\ \E f \in Paths \ DOMAIN master.files :
          handleAllocateChunk(master, "POST", f, now).status = StatusNotFound

\* C11: every handle in the chunk list of any file has an entry in the chunk
\* table, so GetChunkLocations never returns a missing (null) chunk record.
C11_ListedChunksExist ==
    \A f \in DOMAIN master.files :
        /\ \A i \in 1..Len(master.files[f].Chunks) :
              master.files[f].Chunks[i] \in DOMAIN master.chunks
        /\ LET r == handleGetChunks(master, f)
           IN  /\ r.status = StatusOK
               /\ Len(r.body) = Len(master.files[f].Chunks)
               /\ \A i \in 1..Len(r.body) :
                     /\ r.body[i] # Null
                     /\ r.body[i].Handle = master.files[f].Chunks[i]

\* a file has a chunk, and an allocation was refused for want of servers
\* (the handle counter is ahead of the chunk table)
C11_Witness ==
    /\ \E f \in DOMAIN master.files :
          /\ Len(master.files[f].Chunks) > 0
          /\ handleGetChunks(master, f).body[1] = master.chunks[master.files[f].Chunks[1]]
    /\ master.nextChunk > Cardinality(DOMAIN master.chunks) + 1

\* C12: a chunk record, once created, keeps its replica list, primary,
\* version and lease expiry under every later operation; registering further
\* servers does not add them to the replica list of an existing chunk.
C12_ChunkRecordFrozen ==
    [][\A h \in DOMAIN master.chunks :
          /\ h \in DOMAIN master'.chunks
          /\ master'.chunks[h] = master.chunks[h]]_vars

\* a chunk with a single replica while several servers are registered
C12_Witness ==
    \E h \in DOMAIN master.chunks :
        /\ Len(master.chunks[h].Servers) = 1
        /\ Len(master.servers) >= 2
        /\ master.chunks[h].Primary = master.chunks[h].Servers[1]

----------------------------------------------------------------------------
(* Properties of the coordinator under concurrent requests, under ConcSpec *)

Count(seq, x) == Cardinality({k \in 1..Len(seq) : seq[k] = x})

\* the request was answered with status 200
Answered(i, kind) ==
    req[i].pc = "done" /\ req[i].kind = kind /\ req[i].status = StatusOK

\* the two requests were in flight at the same time
Overlapped(i, j) == j \in req[i].with \/ i \in req[j].with

\* C13: two AllocateChunk calls for the same file that run concurrently get
\* distinct handles, and afterwards the file's chunk list holds both handles
\* exactly once each, neither append lost, with the record of each in the
\* chunk table.
C13_ConcurrentAllocations ==
    \A i, j \in Reqs :
        (i # j /\ Answered(i, "allocate") /\ Answered(j, "allocate")
             /\ req[i].file = req[j].file) =>
            LET list == master.files[req[i].file].Chunks
            IN  /\ req[i].handle # req[j].handle
                /\ Count(list, req[i].handle) = 1
                /\ Count(list, req[j].handle) = 1
                /\ master.chunks[req[i].handle] = req[i].chunk
                /\ master.chunks[req[j].handle] = req[j].chunk

\* two allocations for one file were in flight together and both succeeded;
\* the one that arrived first got the later handle
C13_Witness ==
    \E i, j \in Reqs :
        /\ i # j /\ Answered(i, "allocate") /\ Answered(j, "allocate")
        /\ req[i].file = req[j].file
        /\ i \in req[j].with
        /\ LET list == master.files[req[i].file].Chunks
           IN  \E a, b \in 1..Len(list) :
                  a < b /\ list[a] = req[j].handle /\ list[b] = req[i].handle

\* C14: a GetChunkLocations that runs concurrently with AllocateChunk calls
\* returns the records of the file's chunk list as it was before or after
\* each allocation: the records of a prefix of the list, none missing.
C14_LookupSeesSnapshot ==
    \A i \in Reqs :
        (req[i].pc = "done" /\ req[i].kind = "chunks") =>
            /\ req[i].status \in {StatusOK, StatusNotFound}
            /\ req[i].status = StatusOK =>
                  LET list == master.files[req[i].file].Chunks
                  IN  /\ Len(req[i].out) <= Len(list)
                      /\ \A k \in 1..Len(req[i].out) :
                            /\ req[i].out[k] # Null
                            /\ req[i].out[k] = master.chunks[list[k]]

\* a lookup and an allocation for the same file were in flight together and
\* the lookup returned the chunks of before that allocation
C14_Witness ==
    \E i, j \in Reqs :
        /\ Answered(i, "chunks") /\ Answered(j, "allocate")
        /\ req[i].file = req[j].file
        /\ Overlapped(i, j)
        /\ Len(req[i].out) >= 1
        /\ \A k \in 1..Len(req[i].out) : req[i].out[k].Handle # req[j].handle

----------------------------------------------------------------------------
(* Properties of the fan-out of writeFile, under FanoutSpec *)

\* C15: a replica that never answers its StoreChunk call stalls only its own
\* branch: once the client waits for such a replica, the StoreChunk calls to
\* the other reachable replicas of the list are still issued.
C15_HungReplicaStallsOnlyItself ==
    (wr.pc = "wait") ~>
        (\A s \in Range(wr.chunk.Servers) : Reachable(cs, s) => s \in wr.issued)

----------------------------------------------------------------------------
(* Properties of replication, under ReplicaSpec *)

\* the chunkservers that are not running
Stopped == {s \in Addrs : ~Reachable(cs, s)}

\* C16: after a file was written with all three chunkservers receiving the
\* data, and one chunkserver was stopped, ReadFile still returns the data.
C16_ReadSurvivesOneStop ==
    \A f \in DOMAIN master.files, d \in Data :
        (/\ Len(master.files[f].Chunks) >= 1
         /\ LET chunk == master.chunks[master.files[f].Chunks[1]]
            IN  /\ Len(chunk.Servers) = ReplicationFactor
                /\ \A s \in Range(chunk.Servers) :
                      /\ chunk.Handle \in DOMAIN disk[s]
                      /\ disk[s][chunk.Handle] = d
         /\ Cardinality(Stopped) = 1)
        => (ReadNow(f).err = Nil /\ ReadNow(f).content = d)

----------------------------------------------------------------------------
(* A further property of the client operations, under FilesSpec, where     *)
(* files are written more than once and with different data               *)

\* C17: ReadFile of a file with chunks asks only the first server of the
\* replica list of the earliest allocated chunk, touches no other chunk, and
\* returns the data of the WriteFile that was allocated that chunk, not the
\* data of a later write, when that server runs and stored those bytes.
C17_ReadSurfacesFirstChunk ==
    \A f \in DOMAIN master.files :
        Len(master.files[f].Chunks) >= 1 =>
            LET h == master.files[f].Chunks[1]
                s == master.chunks[h].Servers[1]
                r == ReadNow(f)
            IN  /\ h = allocLog[f][1]
                /\ r.contacted = {s}
                /\ \A t \in Addrs \ {s} : r.cs[t] = cs[t]
                /\ DOMAIN r.cs[s].chunks \subseteq DOMAIN cs[s].chunks \cup {h}
                /\ \A g \in DOMAIN cs[s].chunks :
                      g # h => g \in DOMAIN r.cs[s].chunks /\ r.cs[s].chunks[g] = cs[s].chunks[g]
                /\ (Reachable(cs, s) /\ h \in DOMAIN disk[s] /\ disk[s][h] = wrote[h]) =>
                      (r.err = Nil /\ r.content = wrote[h])

\* two writes with different data went to the same file and server, and
\* ReadFile returns the data of the first
C17_Witness ==
    \E f \in DOMAIN master.files :
        /\ Len(master.files[f].Chunks) >= 2
        /\ LET h == master.files[f].Chunks[1]
               h2 == master.files[f].Chunks[2]
               s == master.chunks[h].Servers[1]
           IN  /\ wrote[h] # wrote[h2]
               /\ Reachable(cs, s)
               /\ h \in DOMAIN disk[s] /\ disk[s][h] = wrote[h]
               /\ h2 \in DOMAIN disk[s] /\ disk[s][h2] = wrote[h2]
               /\ master.chunks[h2].Servers[1] = s
               /\ ReadNow(f).err = Nil
               /\ ReadNow(f).content = wrote[h]

----------------------------------------------------------------------------
(* Properties of the chunkserver, under ChunkserverSpec *)

Handles == HandleInputs \ {""}

\* the maps agree on every handle but h
SameBut(m1, m2, h) ==
    /\ DOMAIN m1 \ {h} = DOMAIN m2 \ {h}
    /\ \A g \in DOMAIN m1 \ {h} : m1[g] = m2[g]

\* C18: StoreChunk(handle, bytes) whose disk write succeeds overwrites
\* whatever the server held: afterwards memory and disk hold bytes for the
\* handle, the next RetrieveChunk returns bytes, and the entries of the
\* other handles are as before.
C18_StoreOverwrites ==
    \A s \in ChunkAddrs, h \in Handles, d \in Data :
        Reachable(cs, s) =>
            LET w == handleWrite(cs[s].chunks, disk[s], "POST", h, d, "ok")
                r == handleRead(w.chunks, w.disk, h)
            IN  /\ w.status = StatusOK
                /\ h \in DOMAIN w.chunks /\ w.chunks[h] = d
                /\ h \in DOMAIN w.disk /\ w.disk[h] = d
                /\ SameBut(w.chunks, cs[s].chunks, h)
                /\ SameBut(w.disk, disk[s], h)
                /\ r.status = StatusOK /\ r.body = d
                /\ r.chunks = w.chunks /\ r.disk = w.disk

\* the server holds a handle with memory and disk different from each other,
\* and another handle besides
C18_Witness ==
    \E s \in ChunkAddrs, h, g \in Handles :
        /\ Reachable(cs, s) /\ h # g
        /\ h \in DOMAIN cs[s].chunks /\ h \in DOMAIN disk[s]
        /\ cs[s].chunks[h] # disk[s][h]
        /\ g \in DOMAIN cs[s].chunks
        /\ \E d \in Data :
              /\ d # cs[s].chunks[h] /\ d # disk[s][h]
              /\ handleWrite(cs[s].chunks, disk[s], "POST", h, d, "ok").disk[h] = d

\* the StoreChunk answers 200, memory holds the new bytes and a RetrieveChunk
\* on the running server returns them
StoredInMemory(w, h, d) ==
    /\ w.status = StatusOK
    /\ h \in DOMAIN w.chunks /\ w.chunks[h] = d
    /\ handleRead(w.chunks, w.disk, h).status = StatusOK
    /\ handleRead(w.chunks, w.disk, h).body = d

\* C19 as stated: when the disk write of StoreChunk fails, it still answers
\* 200, memory holds the new bytes, RetrieveChunk returns them, and the copy
\* on disk differs from memory.
C19_DiskFailureDiffers ==
    \A s \in ChunkAddrs, h \in Handles, d \in Data,
       outcome \in DiskOutcomes \ {"ok"} :
        Reachable(cs, s) =>
            LET w == handleWrite(cs[s].chunks, disk[s], "POST", h, d, outcome)
            IN  /\ StoredInMemory(w, h, d)
                /\ h \notin DOMAIN w.disk \/ w.disk[h] # w.chunks[h]

\* C19 amended: when the disk write of StoreChunk fails, it still answers
\* 200, memory holds the new bytes, RetrieveChunk returns them, and the copy
\* on disk differs from memory unless the file could not be opened and
\* already held the new bytes.
C19_DiskFailureKeepsMemory ==
    \A s \in ChunkAddrs, h \in Handles, d \in Data,
       outcome \in DiskOutcomes \ {"ok"} :
        Reachable(cs, s) =>
            LET w == handleWrite(cs[s].chunks, disk[s], "POST", h, d, outcome)
            IN  /\ StoredInMemory(w, h, d)
                /\ SameBut(w.disk, disk[s], h)
                /\ \/ h \notin DOMAIN w.disk
                   \/ w.disk[h] # w.chunks[h]
                   \/ /\ outcome = "open_failed"
                      /\ h \in DOMAIN disk[s]
                      /\ disk[s][h] = d
                      /\ w.disk[h] = d

\* a disk write failed: memory holds bytes that the disk does not
C19_Witness ==
    \E s \in ChunkAddrs, h \in Handles :
        /\ Reachable(cs, s) /\ faults > 0
        /\ h \in DOMAIN cs[s].chunks /\ cs[s].chunks[h] \in Data
        /\ h \notin DOMAIN disk[s] \/ disk[s][h] # cs[s].chunks[h]
        /\ handleRead(cs[s].chunks, disk[s], h).body = cs[s].chunks[h]

\* C20: RetrieveChunk(handle) returns the bytes in memory when there are
\* some; otherwise the bytes on disk, which it puts into the memory cache in
\* the same operation; it answers 404 exactly when the handle is in neither,
\* and then leaves the cache as it was.
C20_Retrieve ==
    \A s \in ChunkAddrs, h \in Handles :
        Reachable(cs, s) =>
            LET r == handleRead(cs[s].chunks, disk[s], h)
            IN  /\ r.disk = disk[s]
                /\ h \in DOMAIN cs[s].chunks =>
                      /\ r.status = StatusOK /\ r.body = cs[s].chunks[h]
                      /\ r.chunks = cs[s].chunks
                /\ (h \notin DOMAIN cs[s].chunks /\ h \in DOMAIN disk[s]) =>
                      /\ r.status = StatusOK /\ r.body = disk[s][h]
                      /\ h \in DOMAIN r.chunks /\ r.chunks[h] = disk[s][h]
                      /\ SameBut(r.chunks, cs[s].chunks, h)
                /\ r.status = StatusNotFound <=>
                      (h \notin DOMAIN cs[s].chunks /\ h \notin DOMAIN disk[s])
                /\ r.status = StatusNotFound => r.chunks = cs[s].chunks

\* after a restart one handle is on disk only and another is in memory
C20_Witness ==
    \E s \in ChunkAddrs, h, g \in Handles :
        /\ Reachable(cs, s)
        /\ h \notin DOMAIN cs[s].chunks /\ h \in DOMAIN disk[s]
        /\ g \in DOMAIN cs[s].chunks
        /\ handleRead(cs[s].chunks, disk[s], h).chunks[h] = disk[s][h]
        /\ handleRead(cs[s].chunks, disk[s], g).body = cs[s].chunks[g]

\* C21: a chunk whose last StoreChunk on a server had a successful disk
\* write is retrievable from that server for as long as it runs, also after
\* a crash and a restart have emptied the chunks map: RetrieveChunk answers
\* 200 with the bytes of that StoreChunk, read from disk.
C21_Durable ==
    \A s \in ChunkAddrs, h \in Handles :
        (Reachable(cs, s) /\ h \in DOMAIN stored[s]) =>
            LET r == handleRead(cs[s].chunks, disk[s], h)
            IN  /\ r.status = StatusOK
                /\ r.body = stored[s][h]

\* the server was restarted after a crash: the handle is on disk only, and
\* the retrieve returns what was stored
C21_Witness ==
    \E s \in ChunkAddrs, h \in Handles :
        /\ Reachable(cs, s) /\ faults > 0
        /\ h \in DOMAIN stored[s] /\ stored[s][h] \in Data
        /\ h \notin DOMAIN cs[s].chunks
        /\ handleRead(cs[s].chunks, disk[s], h).body = stored[s][h]

\* C22: a chunk whose only StoreChunk on a server had a failed disk write is
\* lost by a crash: the StoreChunk answers 200, and after the restart with an
\* empty chunks map RetrieveChunk of the handle answers 404.
C22_LostAfterCrash ==
    \A s \in ChunkAddrs, h \in Handles, d \in Data, outcome \in DiskOutcomes \ {"ok"} :
        (Reachable(cs, s) /\ h \notin DOMAIN cs[s].chunks /\ h \notin DOMAIN disk[s]) =>
            LET w == handleWrite(cs[s].chunks, disk[s], "POST", h, d, outcome)
                r == handleRead(NewChunkserver.chunks, w.disk, h)
            IN  /\ w.status = StatusOK
                /\ r.status = StatusNotFound

\* the registration loop makes at most five attempts, and a chunkserver
\* listens after a successful attempt or after five failed ones
AttemptsBounded ==
    \A s \in StartAddrs :
        /\ boot[s].i \in 0..RegisterAttempts
        /\ boot[s].pc \in {"listen", "serving"} =>
               \/ boot[s].i = RegisterAttempts
               \/ \E k \in 1..Len(master.servers) : master.servers[k] = s
        /\ cs[s].up <=> boot[s].pc = "serving"

\* an attempt after which the loop goes on has failed: it is counted and has
\* registered nothing
StopsAtSuccess ==
    \A s \in StartAddrs :
        (boot[s].pc = "register" /\ boot'[s].pc = "register") =>
            \/ boot'[s] = boot[s]
            \/ boot'[s].i = boot[s].i + 1 /\ master' = master

\* C23: a starting chunkserver makes at most 5 registration attempts, stops
\* at the first success, and in every case gets through its registration:
\* it eventually serves, or http.ListenAndServe returned an error and the
\* process ended.
C23_StartTerminates ==
    /\ []AttemptsBounded
    /\ [][StopsAtSuccess]_vars
    /\ \A s \in StartAddrs :
           (boot[s].pc = "register") ~> (cs[s].up \/ boot[s].pc = "off")

\* the replica lists hold registered addresses only, and a running
\* chunkserver that is not registered stores and retrieves all the same
UnregisteredServes ==
    /\ \A h \in DOMAIN master.chunks :
           Range(master.chunks[h].Servers) \subseteq Range(master.servers)
    /\ \A s \in StartAddrs :
           (Reachable(cs, s) /\ s \notin Range(master.servers)) =>
               /\ \A h \in DOMAIN master.chunks : s \notin Range(master.chunks[h].Servers)
               /\ \A h \in Handles, d \in Data :
                      /\ StoredInMemory(handleWrite(cs[s].chunks, disk[s], "POST", h, d, "ok"),
                                        h, d)
                      /\ handleRead(cs[s].chunks, disk[s], h).status =
                             IF h \in DOMAIN cs[s].chunks \cup DOMAIN disk[s]
                             THEN StatusOK ELSE StatusNotFound

\* a chunk record that appears lists addresses registered before the step
AllocatesRegistered ==
    \A h \in DOMAIN master'.chunks \ DOMAIN master.chunks :
        Range(master'.chunks[h].Servers) \subseteq Range(master.servers)

\* C24: every address in a chunk record's replica list was registered when
\* the chunk was allocated; a chunkserver that was never registered is in no
\* replica list, and it accepts StoreChunk and answers RetrieveChunk for
\* every handle.
C24_OnlyRegisteredSelected ==
    /\ []UnregisteredServes
    /\ [][AllocatesRegistered]_vars

\* a chunkserver gave up registering, serves and holds a chunk that was
\* stored on it directly, while the chunk's record lists the other server
C24_Witness ==
    \E s, t \in StartAddrs :
        /\ cs[s].up /\ boot[s].i = RegisterAttempts
        /\ s \notin Range(master.servers)
        /\ ChunkHandle(1) \in DOMAIN master.chunks
        /\ master.chunks[ChunkHandle(1)].Servers = <<t>>
        /\ ChunkHandle(1) \in DOMAIN cs[s].chunks
        /\ handleRead(cs[s].chunks, disk[s], ChunkHandle(1)).body = "a"

\* the chunk list of a file, empty for a file the coordinator does not know
FileChunks(M, f) == IF f \in DOMAIN M.files THEN M.files[f].Chunks ELSE <<>>

\* data of several sizes
Sizes == Data \cup {"", "aaaaaaaa"}

\* C25: a WriteFile whose allocation succeeds appends exactly one handle to
\* the chunk list of its file, whatever the size of the data, and sends
\* StoreChunk with that handle to exactly the servers of the returned replica
\* list; a WriteFile whose allocation fails changes no chunk list and sends
\* no StoreChunk.
C25_OneChunkPerWrite ==
    \A f \in PathInputs, d \in Sizes :
        LET w == WriteNow(f, d, DiskOk)
        IN  IF w.err = Nil
            THEN /\ FileChunks(w.master, f) = Append(FileChunks(master, f), w.chunk.Handle)
                 /\ \A g \in Paths \ {f} : FileChunks(w.master, g) = FileChunks(master, g)
                 /\ DOMAIN w.stores = Range(w.chunk.Servers)
                 /\ \A s \in Addrs :
                        IF s \in Range(w.chunk.Servers) /\ Reachable(cs, s)
                        THEN /\ w.cs[s].chunks = MapPut(cs[s].chunks, w.chunk.Handle, d)
                             /\ w.disk[s] = MapPut(disk[s], w.chunk.Handle, d)
                        ELSE w.cs[s] = cs[s] /\ w.disk[s] = disk[s]
            ELSE /\ \A g \in Paths : FileChunks(w.master, g) = FileChunks(master, g)
                 /\ DOMAIN w.stores = {}
                 /\ w.cs = cs /\ w.disk = disk

\* a WriteFile has stored its chunk on both servers of the replica list, and
\* the next one gets a second handle for the same file; a WriteFile of the
\* missing file name fails
C25_Witness ==
    \E f \in WritePaths :
        /\ Len(FileChunks(master, f)) = 1
        /\ Len(master.chunks[master.files[f].Chunks[1]].Servers) = 2
        /\ \A s \in SpecAddrs :
               /\ Reachable(cs, s)
               /\ master.files[f].Chunks[1] \in DOMAIN cs[s].chunks
        /\ Len(FileChunks(WriteNow(f, "aaaaaaaa", DiskOk).master, f)) = 2
        /\ WriteNow("", "a", DiskOk).err # Nil

\* the list of registered servers only grows at its end
ServersKept ==
    /\ Len(master'.servers) >= Len(master.servers)
    /\ \A k \in 1..Len(master.servers) : master'.servers[k] = master.servers[k]

\* a registered chunkserver that is down is selected like a running one
CrashedEligible ==
    \A s \in Addrs, f \in DOMAIN master.files :
        (/\ ~Reachable(cs, s)
         /\ \E k \in 1..Min(ReplicationFactor, Len(master.servers)) :
                master.servers[k] = s) =>
            LET a == handleAllocateChunk(master, "POST", f, now)
            IN  a.status = StatusOK /\ s \in Range(a.body.Servers)

\* C26: no step removes an address from the registered servers, a crash of
\* the chunkserver included; a crashed chunkserver stays registered and is
\* selected by later allocations.
C26_ServersOnlyGrow ==
    /\ [][ServersKept]_vars
    /\ []CrashedEligible

\* a chunk was allocated and written while a registered chunkserver of its
\* replica list was down after a crash
C26_Witness ==
    \E s \in SpecAddrs, h \in DOMAIN wrote :
        /\ faults > 0 /\ ~cs[s].up /\ boot[s] = NotStarted
        /\ s \in Range(master.servers)
        /\ s \in Range(master.chunks[h].Servers)
        /\ h \notin DOMAIN disk[s]

\* C27: in every chunk record, in the chunk table as in the replies of
\* AllocateChunk and GetChunkLocations, the primary is the first address of
\* the replica list.
C27_PrimaryIsFirst ==
    /\ \A h \in DOMAIN master.chunks :
           /\ Len(master.chunks[h].Servers) >= 1
           /\ master.chunks[h].Primary = master.chunks[h].Servers[1]
    /\ \A f \in PathInputs :
           LET a == handleAllocateChunk(master, "POST", f, now)
               g == handleGetChunks(master, f)
           IN  /\ a.status = StatusOK => a.body.Primary = a.body.Servers[1]
               /\ g.status = StatusOK =>
                      \A k \in 1..Len(g.body) : g.body[k].Primary = g.body[k].Servers[1]

\* a chunk with several replicas, the first of them the primary
C27_Witness ==
    \E h \in DOMAIN master.chunks :
        /\ Len(master.chunks[h].Servers) >= 2
        /\ master.chunks[h].Primary = master.chunks[h].Servers[1]
        /\ master.chunks[h].Primary # master.chunks[h].Servers[2]
        /\ \E f \in DOMAIN master.files :
               /\ Len(master.files[f].Chunks) >= 1
               /\ handleGetChunks(master, f).body[1].Primary = master.servers[1]

\* what a caller of ReadFile gets
Returned(r) == [status |-> r.status, content |-> r.content, err |-> r.err]

\* C28: when the first write to a path reached all its replicas and they
\* are reachable, ReadFile of the path returns the data of that write,
\* whatever was written to other paths; and a WriteFile to one path leaves
\* what ReadFile returns for every other path as it was.
C28_FilesDoNotInterfere ==
    /\ \A f \in DOMAIN master.files :
           Len(master.files[f].Chunks) >= 1 =>
               LET h == master.files[f].Chunks[1]
               IN  (/\ h \in DOMAIN wrote
                    /\ \A s \in Range(master.chunks[h].Servers) :
                           Reachable(cs, s) /\ h \in DOMAIN stored[s]) =>
                       ReadNow(f).err = Nil /\ ReadNow(f).content = wrote[h]
    /\ \A f, g \in Paths, d \in Data :
           f # g => Returned(ReadAfter(WriteNow(f, d, DiskOk), g)) = Returned(ReadNow(g))

\* two files were written with different data, and each is read back with
\* its own
C28_Witness ==
    /\ \A s \in FilesAddrs : Reachable(cs, s)
    /\ \A f \in Paths : f \in DOMAIN master.files /\ Len(master.files[f].Chunks) >= 1
    /\ ReadNow("f1").content = "a"
    /\ ReadNow("f2").content = "b"
    /\ Returned(ReadAfter(WriteNow("f1", "b", DiskOk), "f2")).content = "b"

\* the lease of the chunk has run out
Expired(h) == now > master.chunks[h].LeaseEnd

\* a chunk record without its lease expiry
NoLease(chunk) == [x \in DOMAIN chunk \ {"LeaseEnd"} |-> chunk[x]]

\* every record has version 1; the lookup returns expired records like any
\* other, and an allocation is answered as it would be at time 0, but for
\* the lease expiry of the new record
LeaseIgnored ==
    /\ \A h \in DOMAIN master.chunks : master.chunks[h].Version = 1
    /\ \A f \in LeasePaths :
           LET g == handleGetChunks(master, f)
               a == handleAllocateChunk(master, "POST", f, now)
               a0 == handleAllocateChunk(master, "POST", f, 0)
           IN  /\ g.status = StatusOK =>
                      /\ Len(g.body) = Len(master.files[f].Chunks)
                      /\ \A k \in 1..Len(g.body) :
                             g.body[k] = master.chunks[master.files[f].Chunks[k]]
               /\ a.status = a0.status
               /\ a.status = StatusOK =>
                      /\ NoLease(a.body) = NoLease(a0.body)
                      /\ a.body.LeaseEnd = now + LeaseSeconds
                      /\ a.master.files = a0.master.files
                      /\ \A h \in DOMAIN master.chunks :
                             a.master.chunks[h] = master.chunks[h]
               /\ \A h \in DOMAIN wrote :
                      (/\ f \in DOMAIN master.files
                       /\ Len(master.files[f].Chunks) >= 1
                       /\ master.files[f].Chunks[1] = h
                       /\ Expired(h)
                       /\ Reachable(cs, master.chunks[h].Servers[1])
                       /\ h \in DOMAIN stored[master.chunks[h].Servers[1]])
                          => ReadNow(f).content = wrote[h]

\* a record that appears has version 1 and expires one lease duration after
\* the time of the step; a record that exists keeps its version and its
\* expiry; a step of the clock changes no answer
LeaseSetOnce ==
    /\ \A h \in DOMAIN master'.chunks \ DOMAIN master.chunks :
           /\ master'.chunks[h].Version = 1
           /\ master'.chunks[h].LeaseEnd = now + LeaseSeconds
    /\ \A h \in DOMAIN master.chunks :
           /\ master'.chunks[h].Version = master.chunks[h].Version
           /\ master'.chunks[h].LeaseEnd = master.chunks[h].LeaseEnd
    /\ now' # now =>
           \A f \in LeasePaths :
               /\ handleGetChunks(master', f).body = handleGetChunks(master, f).body
               /\ Returned(readFile(master', cs', disk', f, TRUE)) = Returned(ReadNow(f))

\* C29: every chunk record is created with version 1 and a lease expiry of
\* its allocation time plus 60; no later operation renews, increments or
\* consults either: allocations and reads are answered the same after the
\* lease has run out.
C29_LeaseNeverUsed ==
    /\ []LeaseIgnored
    /\ [][LeaseSetOnce]_vars

\* one chunk's lease has run out, it is still returned and read, and a later
\* chunk of the same file was allocated after that
C29_Witness ==
    \E f \in LeasePaths, h, g \in DOMAIN master.chunks :
        /\ Expired(h) /\ ~Expired(g)
        /\ master.chunks[g].LeaseEnd - LeaseSeconds > master.chunks[h].LeaseEnd
        /\ master.files[f].Chunks = <<h, g>>
        /\ handleGetChunks(master, f).body[1].LeaseEnd = LeaseSeconds
        /\ h \in DOMAIN wrote /\ ReadNow(f).content = wrote[h]

----------------------------------------------------------------------------
(* Properties of one chunkserver under concurrent requests, under RaceSpec *)

\* C30: a RetrieveChunk that runs concurrently with StoreChunk calls on the
\* same handle is answered with what a RetrieveChunk alone would have
\* answered in one of the states between its arrival and its answer: 404,
\* or the complete bytes of one StoreChunk, never the content of a file
\* that is being written; a store and a retrieve never hold the lock
\* together.
C30_StoreRetrieveSerialized ==
    /\ ~(csmu.writer /\ csmu.readers > 0)
    /\ \A i \in CsReqs :
           (creq[i].kind = "read" /\ creq[i].pc \in {"runlock", "done"}) =>
               /\ [status |-> creq[i].status, body |-> creq[i].body] \in creq[i].seen
               /\ \/ creq[i].status = StatusNotFound
                  \/ creq[i].status = StatusOK /\ creq[i].body \in Data

\* a retrieve arrived before a store of other bytes took the lock, found the
\* chunk on disk only, and was answered with the old bytes or the new
C30_Witness ==
    \E i, j \in CsReqs :
        /\ creq[i].kind = "read" /\ creq[i].pc = "done"
        /\ creq[j].kind = "write" /\ creq[j].pc = "done"
        /\ Cardinality(creq[i].seen) >= 2
        /\ creq[i].status = StatusOK
        /\ creq[i].body = creq[j].data
        /\ faults > 0

\* the goroutine is at a statement that assigns to cs.chunks
WritesCache(i) == creq[i].pc \in {"mem", "backfill"}

\* C31: on one chunkserver no two handlers, two retrieves that missed in
\* memory or a retrieve and a store, are at the same time at a statement that
\* writes the chunks map.
C31_CacheWritesExcluded ==
    \A i, j \in CsReqs : (WritesCache(i) /\ WritesCache(j)) => i = j

----------------------------------------------------------------------------
(* The lock discipline of the coordinator, under ConcSpec *)

\* the goroutine is between taking and releasing Master.mu
InCritical(i) == req[i].pc \notin {"idle", "lock", "done"}

Mutator(i) == req[i].kind \in {"register", "create", "allocate"}

\* a mutator inside its critical section is alone there, and the mutex
\* counts the handlers that are inside
MutatorsAlone ==
    /\ \A i, j \in Reqs :
           (InCritical(i) /\ Mutator(i) /\ InCritical(j)) => i = j
    /\ mu.writer <=> \E i \in Reqs : InCritical(i) /\ Mutator(i)
    /\ mu.readers = Cardinality({i \in Reqs : InCritical(i) /\ ~Mutator(i)})

\* the server list, the namespace and the chunk table change only in steps
\* of the one handler that holds the mutex for writing, or with the mutex
\* free in a handler that runs from its Lock to its Unlock in one step
OneGuard ==
    master' # master =>
        /\ mu.readers = 0
        /\ Cardinality({i \in Reqs : InCritical(i)}) <= 1
        /\ \A i \in Reqs : InCritical(i) => Mutator(i) /\ req'[i] # req[i]

\* C32: while RegisterServer, CreateFile or AllocateChunk is inside its
\* critical section no other coordinator operation is inside its own;
\* GetChunkLocations calls may be inside together; one mutex guards the
\* server list, the namespace and the chunk table.
C32_LockDiscipline ==
    /\ []MutatorsAlone
    /\ [][OneGuard]_vars

\* a registration and a creation went through their critical sections, and
\* two lookups are inside theirs at the same time
C32_Witness ==
    \E i, j \in Reqs :
        /\ i # j
        /\ req[i].kind = "chunks" /\ InCritical(i)
        /\ req[j].kind = "chunks" /\ InCritical(j)
        /\ mu.readers = 2
        /\ Len(master.servers) >= 1 /\ DOMAIN master.files # {}

----------------------------------------------------------------------------
(* Further properties of the coordinator, under MasterSpec *)

IsPrefix(a, b) == Len(a) <= Len(b) /\ \A k \in 1..Len(a) : a[k] = b[k]

\* C33: every chunk's replica list is a prefix of the list of registered
\* servers in registration order; any two replica lists are prefixes of one
\* another; every chunk's primary is the server that registered first.
C33_ReplicasArePrefix ==
    /\ \A h \in DOMAIN master.chunks :
           /\ IsPrefix(master.chunks[h].Servers, master.servers)
           /\ master.chunks[h].Primary = master.servers[1]
    /\ \A h, g \in DOMAIN master.chunks :
           \/ IsPrefix(master.chunks[h].Servers, master.chunks[g].Servers)
           \/ IsPrefix(master.chunks[g].Servers, master.chunks[h].Servers)

\* four servers are registered; one chunk was allocated with one of them,
\* a later one with three
C33_Witness ==
    \E h, g \in DOMAIN master.chunks :
        /\ Len(master.servers) = 4
        /\ Len(master.chunks[h].Servers) = 1
        /\ Len(master.chunks[g].Servers) = ReplicationFactor
        /\ master.chunks[g].Primary = master.chunks[h].Primary

\* the handles with a number below n
HandlesBelow(n) == {ChunkHandle(k) : k \in 1..(n - 1)}

\* an allocation without a registered server answers 503, advances the
\* counter and changes nothing else; the counter is beyond every handle of
\* the chunk table
CounterAhead ==
    /\ DOMAIN master.chunks \subseteq HandlesBelow(master.nextChunk)
    /\ \A f \in DOMAIN master.files :
           Len(master.servers) = 0 =>
               LET r == handleAllocateChunk(master, "POST", f, now)
               IN  /\ r.status = StatusServiceUnavailable
                   /\ r.master.files = master.files
                   /\ r.master.chunks = master.chunks
                   /\ r.master.servers = master.servers
                   /\ r.master.nextChunk = master.nextChunk + 1

\* a handle that is issued carries the number of the counter, which never
\* goes back
HandlesIncrease ==
    /\ master'.nextChunk >= master.nextChunk
    /\ \A h \in DOMAIN master'.chunks \ DOMAIN master.chunks :
           /\ h = ChunkHandle(master.nextChunk)
           /\ master'.nextChunk = master.nextChunk + 1

\* C34: an AllocateChunk that fails for want of servers leaves namespace,
\* chunk table and server list unchanged and has advanced the handle
\* counter; issued handle numbers strictly increase, with gaps; the counter
\* is greater than the number of every handle in the chunk table.
C34_CounterAdvancesOnFailure ==
    /\ []CounterAhead
    /\ [][HandlesIncrease]_vars

\* the first allocation failed for want of servers and the second one
\* succeeded: the chunk table holds handle 2 and not handle 1
C34_Witness ==
    /\ ChunkHandle(2) \in DOMAIN master.chunks
    /\ ChunkHandle(1) \notin DOMAIN master.chunks
    /\ master.nextChunk = 3
    /\ \E f \in DOMAIN master.files : master.files[f].Chunks = <<ChunkHandle(2)>>

\* C35: a WriteFile to a fresh path that fails because no server is
\* registered has created the file: afterwards GetChunkLocations answers an
\* empty list, ReadFile returns empty content without error and CreateFile
\* answers 409.
C35_FailedWriteLeavesFile ==
    \A f \in Paths, d \in Data :
        (f \notin DOMAIN master.files /\ Len(master.servers) = 0) =>
            LET w == writeFile(master, cs, disk, f, d, now, TRUE, TRUE, DiskOk)
                g == handleGetChunks(w.master, f)
                r == readFile(w.master, w.cs, w.disk, f, TRUE)
                c == handleCreateFile(w.master, "POST", f)
            IN  /\ w.status = StatusServiceUnavailable
                /\ w.err # Nil
                /\ f \in DOMAIN w.master.files
                /\ g.status = StatusOK
                /\ g.body = <<>>
                /\ r.status = StatusOK
                /\ r.err = Nil
                /\ r.content = ""
                /\ c.status = StatusConflict

\* a WriteFile failed for want of servers and left its file behind, while
\* the other path is still fresh
C35_Witness ==
    /\ Len(master.servers) = 0
    /\ "f1" \in DOMAIN master.files
    /\ master.files["f1"].Chunks = <<>>
    /\ master.nextChunk = 2
    /\ "f2" \notin DOMAIN master.files

\* the bytes that the server holds under the handle, in its chunks map and
\* in its dataDir
Copies(s, h) ==
    (IF h \in DOMAIN cs[s].chunks THEN {cs[s].chunks[h]} ELSE {})
        \cup (IF h \in DOMAIN disk[s] THEN {disk[s][h]} ELSE {})

\* C36: when data reaches the chunkservers only through WriteFile, every
\* handle is stored by one WriteFile invocation, and all chunkservers that
\* hold a handle hold the bytes of that invocation: replicas differ in
\* presence only, never in content.
C36_ReplicasIdentical ==
    \A h \in HandlesBelow(master.nextChunk) :
        \A s \in Addrs : Holds(cs, disk, s, h) =>
            /\ h \in DOMAIN wrote
            /\ Copies(s, h) = {wrote[h]}

----------------------------------------------------------------------------
(* The chunks map and the dataDir of one chunkserver, under CacheSpec *)

\* a store is between its assignment to the chunks map and the end of its
\* os.WriteFile, with these bytes for this handle
Storing(h, d) ==
    \E i \in CsReqs :
        /\ creq[i].pc \in {"open", "write"}
        /\ creq[i].handle = h
        /\ creq[i].data = d

\* C37: on a chunkserver whose disk writes all succeed, under any
\* interleaving of stores, retrieves and restarts, a handle in the chunks map
\* is on disk with the same bytes; the one exception is the handle of the
\* store that is inside its critical section, between its assignment to the
\* map and its write to disk, which no other handler can observe.
C37_CacheWithinDisk ==
    \A h \in DOMAIN cs[RaceAddr].chunks :
        \/ h \in DOMAIN disk[RaceAddr] /\ disk[RaceAddr][h] = cs[RaceAddr].chunks[h]
        \/ csmu.writer /\ Storing(h, cs[RaceAddr].chunks[h])

\* after a restart a retrieve has put the chunk back into the chunks map
\* from disk, and a store has replaced it since
C37_Witness ==
    \E i, j \in CsReqs :
        /\ creq[i].kind = "read" /\ creq[i].pc = "done" /\ creq[i].status = StatusOK
        /\ creq[j].kind = "write" /\ creq[j].pc = "done"
        /\ creq[i].body # creq[j].data
        /\ RaceHandle \in DOMAIN cs[RaceAddr].chunks
        /\ cs[RaceAddr].chunks[RaceHandle] = creq[j].data
        /\ disk[RaceAddr][RaceHandle] = creq[j].data
        /\ faults > 0

----------------------------------------------------------------------------
(* The order of registration and serving, under StartSpec *)

\* the address is in the coordinator's server list
Registered(M, s) == \E k \in 1..Len(M.servers) : M.servers[k] = s

\* a chunkserver answers requests only when its registration loop is over
ServesAfterLoop ==
    \A s \in StartAddrs :
        Reachable(cs, s) =>
            /\ boot[s].pc = "serving"
            /\ Registered(master, s) \/ boot[s].i = RegisterAttempts

\* a chunkserver is entered in the server list by an attempt of its loop,
\* before it serves; it starts to serve from the end of the loop, in a step
\* that registers nothing
RegistersThenServes ==
    \A s \in StartAddrs :
        /\ (~Registered(master, s) /\ Registered(master', s)) =>
               /\ boot[s].pc = "register"
               /\ boot'[s].pc = "listen"
               /\ ~Reachable(cs, s) /\ ~Reachable(cs', s)
        /\ (~Reachable(cs, s) /\ Reachable(cs', s)) =>
               /\ boot[s].pc = "listen"
               /\ master' = master

\* C38: a chunkserver begins to answer store and retrieve requests only
\* after its registration loop has ended, so that it is registered before
\* it serves; a registered chunkserver can be selected as a replica while it
\* does not serve yet.
C38_RegistersBeforeServing ==
    /\ []ServesAfterLoop
    /\ [][RegistersThenServes]_vars

\* a chunkserver is registered and in the replica list of a chunk, its loop
\* is over and it does not listen yet
C38_Witness ==
    \E s \in StartAddrs :
        /\ Registered(master, s)
        /\ boot[s].pc = "listen"
        /\ ~Reachable(cs, s)
        /\ \E h \in DOMAIN master.chunks :
               /\ s \in Range(master.chunks[h].Servers)
               /\ master.chunks[h].Primary = s

----------------------------------------------------------------------------
(* The chunk table and the chunk lists, under MasterSpec *)

\* the places where the chunk lists of the files name the handle
References(M, h) ==
    {p \in (DOMAIN M.files) \X (1..MaxChunks) :
        p[2] <= Len(M.files[p[1]].Chunks) /\ M.files[p[1]].Chunks[p[2]] = h}

\* C39: every record of the chunk table is named by exactly one file, once
\* in the chunk list of that file: no handle is shared by two files, none
\* occurs twice in a list, and no record of the chunk table is an orphan.
C39_OneReferencePerChunk ==
    /\ \A h \in DOMAIN master.chunks :
           /\ master.chunks[h].Handle = h
           /\ Cardinality(References(master, h)) = 1
    /\ \A f \in DOMAIN master.files :
           /\ Len(master.files[f].Chunks) <= MaxChunks
           /\ NoDuplicates(master.files[f].Chunks)
           /\ \A g \in DOMAIN master.files \ {f} :
                  Range(master.files[f].Chunks) \cap Range(master.files[g].Chunks) = {}

\* two files hold a chunk each
C39_Witness ==
    \E f, g \in DOMAIN master.files :
        /\ f # g
        /\ Len(master.files[f].Chunks) = 1
        /\ Len(master.files[g].Chunks) = 1
        /\ Cardinality(DOMAIN master.chunks) = 2
        /\ References(master, master.files[f].Chunks[1]) = {<<f, 1>>}
        /\ References(master, master.files[g].Chunks[1]) = {<<g, 1>>}

----------------------------------------------------------------------------
(* What the coordinator records of the writes, under Spec *)

\* the sizes that the coordinator keeps are 0
SizesZero ==
    /\ \A f \in DOMAIN master.files : master.files[f].Size = 0
    /\ \A h \in DOMAIN master.chunks : master.chunks[h].Size = 0

\* the coordinator after the three handlers that assign to its fields
ByRegister(M) == {handleRegisterServer(M, "POST", s).master : s \in Addrs}

ByCreate(M) == {handleCreateFile(M, "POST", f).master : f \in Paths}

ByAllocate(M, t) == {handleAllocateChunk(M, "POST", f, t).master : f \in Paths}

\* a step changes the coordinator only as RegisterServer, CreateFile or
\* AllocateChunk do, and a step that changes a chunkserver's memory or disk
\* leaves the coordinator as it was
OnlyByHandlers ==
    /\ \/ master' = master
       \/ master' \in ByRegister(master)
       \/ master' \in ByCreate(master)
       \/ master' \in ByAllocate(master, now)
    /\ (cs' # cs \/ disk' # disk) => master' = master

\* C40: the coordinator never records how much data was written: after any
\* sequence of WriteFile calls the size of every file and of every chunk
\* record is 0, and the operations of chunkservers and clients change the
\* coordinator only through RegisterServer, CreateFile and AllocateChunk.
C40_SizesNeverRecorded ==
    /\ []SizesZero
    /\ [][OnlyByHandlers]_vars

\* two WriteFile calls stored their bytes on a chunkserver, and the sizes
\* that the coordinator keeps for the file and its chunks are 0
C40_Witness ==
    \E f \in DOMAIN master.files, s \in Addrs :
        /\ Len(master.files[f].Chunks) = 2
        /\ master.files[f].Size = 0
        /\ \A k \in 1..2 :
               LET h == master.files[f].Chunks[k]
               IN  /\ master.chunks[h].Size = 0
                   /\ h \in DOMAIN wrote
                   /\ h \in DOMAIN disk[s]
                   /\ disk[s][h] = wrote[h]
                   /\ wrote[h] \in Data

====
